---- MODULE Spec2Model ----
(***************************************************************************)
(* Release-notes dashboard: the changelog parser of                        *)
(* app/api/release-notes/route.ts and the Wednesday-cycle grouper and      *)
(* filter of app/page.tsx.                                                 *)
(*                                                                         *)
(* A JavaScript string is a sequence of characters, so that regular        *)
(* expressions, comparison (<, localeCompare) and formatting are computed  *)
(* character by character as the code computes them. An ASCII character    *)
(* stands for itself ("a", "["); any other is named by its code point      *)
(* ("U+20AC" is the euro sign).                                            *)
(***************************************************************************)
EXTENDS Integers, Sequences, FiniteSets, TLC

(***************************************************************************)
(* Characters and strings                                                  *)
(***************************************************************************)
Digit == {"0", "1", "2", "3", "4", "5", "6", "7", "8", "9"}

\* \s of a JavaScript regular expression, as far as the inputs use it.
WhiteSpace == {" ", "\t"}

DigitVal(c) ==
  CASE c = "0" -> 0 [] c = "1" -> 1 [] c = "2" -> 2 [] c = "3" -> 3
    [] c = "4" -> 4 [] c = "5" -> 5 [] c = "6" -> 6 [] c = "7" -> 7
    [] c = "8" -> 8 [] c = "9" -> 9

DigitChar(n) ==
  CASE n = 0 -> "0" [] n = 1 -> "1" [] n = 2 -> "2" [] n = 3 -> "3"
    [] n = 4 -> "4" [] n = 5 -> "5" [] n = 6 -> "6" [] n = 7 -> "7"
    [] n = 8 -> "8" [] n = 9 -> "9"

\* UTF-16 code unit of the characters that version ids and date keys hold.
CharCode(c) ==
  CASE c = "-" -> 45 [] c = "." -> 46
    [] c \in Digit -> 48 + DigitVal(c)
    [] OTHER -> 255

\* a < b on JavaScript strings: lexicographic on code units, a proper prefix
\* is smaller.
RECURSIVE StrLess(_, _)
StrLess(a, b) ==
  IF b = <<>> THEN FALSE
  ELSE IF a = <<>> THEN TRUE
  ELSE IF Head(a) = Head(b) THEN StrLess(Tail(a), Tail(b))
  ELSE CharCode(Head(a)) < CharCode(Head(b))

\* Number(s) for a string of decimal digits.
RECURSIVE NumberOf(_)
NumberOf(s) ==
  IF s = <<>> THEN 0
  ELSE 10 * NumberOf(SubSeq(s, 1, Len(s) - 1)) + DigitVal(s[Len(s)])

\* String(n) for n >= 0.
RECURSIVE ToDigits(_)
ToDigits(n) ==
  IF n < 10 THEN <<DigitChar(n)>>
  ELSE ToDigits(n \div 10) \o <<DigitChar(n % 10)>>

\* s.padStart(width, '0')
RECURSIVE padStart(_, _)
padStart(s, width) ==
  IF Len(s) >= width THEN s ELSE padStart(<<"0">> \o s, width)

\* s.indexOf(sep) + 1, when s holds sep.
firstIndexOf(s, sep) ==
  CHOOSE j \in 1..Len(s) : s[j] = sep /\ \A k \in 1..(j - 1) : s[k] # sep

\* s.split(sep) for a one-character separator.
RECURSIVE split(_, _)
splitAt(s, sep, i) ==
  <<SubSeq(s, 1, i - 1)>> \o split(SubSeq(s, i + 1, Len(s)), sep)


split(s, sep) ==
  IF \A i \in 1..Len(s) : s[i] # sep THEN <<s>>
  ELSE splitAt(s, sep, firstIndexOf(s, sep))

\* s.trim()
RECURSIVE trimStart(_)
trimStart(s) ==
  IF s # <<>> /\ Head(s) \in WhiteSpace THEN trimStart(Tail(s)) ELSE s

RECURSIVE trimEnd(_)
trimEnd(s) ==
  IF s # <<>> /\ s[Len(s)] \in WhiteSpace
  THEN trimEnd(SubSeq(s, 1, Len(s) - 1)) ELSE s

trim(s) == trimEnd(trimStart(s))

\* s.startsWith(lit, from i)
IsAt(s, i, lit) ==
  /\ i >= 1
  /\ i + Len(lit) - 1 <= Len(s)
  /\ SubSeq(s, i, i + Len(lit) - 1) = lit

(***************************************************************************)
(* Dates (date-fns over the JavaScript Date, local time without DST)       *)
(* A Date is [day, ms]: days since 1970-01-01 and milliseconds in the day. *)
(***************************************************************************)
InvalidDate == [day |-> -1, ms |-> -1]

IsLeap(y) == (y % 4 = 0 /\ y % 100 # 0) \/ y % 400 = 0

DaysInMonth(y, m) ==
  CASE m = 2 -> IF IsLeap(y) THEN 29 ELSE 28
    [] m \in {4, 6, 9, 11} -> 30
    [] OTHER -> 31

\* Days since the epoch of the civil date y-m-d (the proleptic Gregorian
\* calendar of the JavaScript Date), computed in stages: year of era, day
\* of year, day of era.
DaysOfEra(era, doe) == era * 146097 + doe - 719468

DaysOfYoe(era, yoe, doy) ==
  DaysOfEra(era, yoe * 365 + yoe \div 4 - yoe \div 100 + doy)

DaysOfYear(yy, mp, d) ==
  DaysOfYoe(yy \div 400, yy % 400, (153 * mp + 2) \div 5 + d - 1)

DaysFromCivil(y, m, d) ==
  DaysOfYear(IF m <= 2 THEN y - 1 ELSE y, IF m > 2 THEN m - 3 ELSE m + 9, d)

\* The civil date <<y, m, d>> of a day number, in the inverse stages.
CivilOfMonth(y, m, d) == <<IF m <= 2 THEN y + 1 ELSE y, m, d>>

CivilOfMp(y, doy, mp) ==
  CivilOfMonth(y, IF mp < 10 THEN mp + 3 ELSE mp - 9,
               doy - (153 * mp + 2) \div 5 + 1)

CivilOfDoy(y, doy) == CivilOfMp(y, doy, (5 * doy + 2) \div 153)

CivilOfYoe(era, doe, yoe) ==
  CivilOfDoy(yoe + era * 400, doe - (365 * yoe + yoe \div 4 - yoe \div 100))

CivilOfDoe(era, doe) ==
  CivilOfYoe(era, doe,
             (doe - doe \div 1460 + doe \div 36524 - doe \div 146096) \div 365)

CivilFromDays(z) ==
  CivilOfDoe((z + 719468) \div 146097, (z + 719468) % 146097)

\* The Date of numeric fields: Invalid Date when they name no calendar day.
dateOfFields(y, m, d) ==
  IF m \in 1..12 /\ d \in 1..DaysInMonth(y, m)
  THEN [day |-> DaysFromCivil(y, m, d), ms |-> 0]
  ELSE InvalidDate

IsDigits(s, n) == Len(s) = n /\ \A j \in 1..Len(s) : s[j] \in Digit

parseFields(f) ==
  IF Len(f) = 3 /\ IsDigits(f[1], 4) /\ IsDigits(f[2], 2) /\ IsDigits(f[3], 2)
  THEN dateOfFields(NumberOf(f[1]), NumberOf(f[2]), NumberOf(f[3]))
  ELSE InvalidDate

\* parseISO('yyyy-MM-dd'): local midnight of that date, or Invalid Date when
\* the text is not three numeric fields or names no calendar day.
parseISO(dateStr) == parseFields(split(dateStr, "-"))

\* Date.prototype.getDay: 0 is Sunday; 1970-01-01 was a Thursday.
getDay(date) == (date.day + 4) % 7

isWednesday(date) == date # InvalidDate /\ getDay(date) = 3

addDays(date, n) ==
  IF date = InvalidDate THEN InvalidDate ELSE [date EXCEPT !.day = @ + n]

\* nextDay(date, day): date plus delta days, delta brought into 1..7.
addDelta(date, delta) == addDays(date, IF delta <= 0 THEN delta + 7 ELSE delta)

\* nextWednesday(date) = nextDay(date, 3): the Wednesday strictly after date.
nextWednesday(date) == addDelta(date, 3 - getDay(date))

\* What stands for the RangeError that format throws on an Invalid Date.
RangeError == <<"RangeError">>

formatCivil(c) ==
  padStart(ToDigits(c[1]), 4) \o <<"-">> \o padStart(ToDigits(c[2]), 2)
    \o <<"-">> \o padStart(ToDigits(c[3]), 2)

\* format(date, 'yyyy-MM-dd')
format(date) ==
  IF date = InvalidDate THEN RangeError ELSE formatCivil(CivilFromDays(date.day))

MonthAbbr ==
  <<<<"J", "a", "n">>, <<"F", "e", "b">>, <<"M", "a", "r">>, <<"A", "p", "r">>,
    <<"M", "a", "y">>, <<"J", "u", "n">>, <<"J", "u", "l">>, <<"A", "u", "g">>,
    <<"S", "e", "p">>, <<"O", "c", "t">>, <<"N", "o", "v">>, <<"D", "e", "c">>>>

formatMonthDay(c) == MonthAbbr[c[2]] \o <<" ">> \o ToDigits(c[3])

\* format(date, 'MMM d')
formatMMMd(date) ==
  IF date = InvalidDate THEN RangeError ELSE formatMonthDay(CivilFromDays(date.day))

\* new Date(date) followed by setDate(date.getDate() + n)
setDateBy(date, n) == addDays(date, n)

startOfDay(date) ==
  IF date = InvalidDate THEN InvalidDate ELSE [date EXCEPT !.ms = 0]

endOfDay(date) ==
  IF date = InvalidDate THEN InvalidDate ELSE [date EXCEPT !.ms = 86399999]

\* isBefore / isAfter compare the time values; with an Invalid Date (NaN)
\* every comparison is false.
isBefore(a, b) ==
  /\ a # InvalidDate /\ b # InvalidDate
  /\ (a.day < b.day \/ (a.day = b.day /\ a.ms < b.ms))

isAfter(a, b) ==
  /\ a # InvalidDate /\ b # InvalidDate
  /\ (a.day > b.day \/ (a.day = b.day /\ a.ms > b.ms))

(***************************************************************************)
(* The release-notes response the page fetches (app/page.tsx)              *)
(***************************************************************************)
\* A null string: no JavaScript string, since "null" names no character.
NullStr == <<"null">>

\* JavaScript truthiness of a string-or-null value.
Truthy(s) == s # NullStr /\ s # <<>>

Adyen == <<"A", "d", "y", "e", "n">>

Stripe == <<"S", "t", "r", "i", "p", "e">>

\* The dropdowns' "no constraint" value.
All == <<"A", "l", "l">>

\* the template y-String(m).padStart(2, '0')-String(d).padStart(2, '0')
dateStrOf(y, m, d) ==
  ToDigits(y) \o <<"-">> \o padStart(ToDigits(m), 2) \o <<"-">>
    \o padStart(ToDigits(d), 2)

dateStrOfParts(f) == dateStrOf(NumberOf(f[1]), NumberOf(f[2]), NumberOf(f[3]))

\* The section date of a version id: its first three components.
versionDate(currentVersion) == dateStrOfParts(split(currentVersion, "."))

\* One parsed bullet as the release-notes route emits it.
ReleaseItem(title, type, connector, dateStr, version) ==
  [title |-> title, type |-> type, connector |-> connector,
   originalDate |-> dateStr, version |-> version]

\* The items of one section: bullets is a sequence of <<title, type,
\* connector>>; each item carries the section's date and version.
weekItems(dateStr, version, bullets) ==
  [i \in 1..Len(bullets) |->
     ReleaseItem(bullets[i][1], bullets[i][2], bullets[i][3], dateStr, version)]

weekOf(dateStr, version, bullets) ==
  [id |-> dateStr, date |-> dateStr, items |-> weekItems(dateStr, version, bullets)]

\* One section of the response.
ReleaseWeek(version, bullets) == weekOf(versionDate(version), version, bullets)

\* A section from a parser that records no version (items without the
\* version field).
UnversionedWeek(dateStr, bullets) == weekOf(dateStr, NullStr, bullets)

\* A whole changelog around New Year 2026 in document order (most recent
\* first; 2026-01-07 is a Wednesday): six cycles.
LongChangelog ==
  <<ReleaseWeek(<<"2", "0", "2", "6", ".", "1", ".", "2", "9", ".", "0">>, << <<<<"k">>, "Bug Fix", Stripe>> >>),
    ReleaseWeek(<<"2", "0", "2", "6", ".", "1", ".", "2", "8", ".", "0">>, << <<<<"j">>, "Feature", Adyen>> >>),
    ReleaseWeek(<<"2", "0", "2", "6", ".", "1", ".", "2", "0", ".", "0">>, << <<<<"i">>, "Feature", NullStr>> >>),
    UnversionedWeek(<<"2", "0", "2", "6", "-", "0", "1", "-", "1", "1">>, << <<<<"m">>, "Feature", NullStr>> >>),
    ReleaseWeek(<<"2", "0", "2", "6", ".", "1", ".", "1", "0", ".", "0">>, << <<<<"h">>, "Feature", Adyen>> >>),
    ReleaseWeek(<<"2", "0", "2", "6", ".", "1", ".", "9", ".", "0">>, << <<<<"g">>, "Bug Fix", Stripe>> >>),
    ReleaseWeek(<<"2", "0", "2", "6", ".", "1", ".", "7", ".", "2">>, << <<<<"f">>, "Feature", Stripe>> >>),
    ReleaseWeek(<<"2", "0", "2", "6", ".", "1", ".", "7", ".", "0">>, << <<<<"d">>, "Feature", Adyen>>, <<<<"e">>, "Bug Fix", NullStr>> >>),
    ReleaseWeek(<<"2", "0", "2", "6", ".", "1", ".", "5", ".", "0">>, << <<<<"c">>, "Bug Fix", Adyen>> >>),
    ReleaseWeek(<<"2", "0", "2", "6", ".", "1", ".", "1", ".", "0">>, << <<<<"b">>, "Feature", NullStr>> >>),
    ReleaseWeek(<<"2", "0", "2", "5", ".", "1", "2", ".", "3", "0", ".", "1">>, << <<<<"a">>, "Feature", Adyen>> >>)>>

\* The sections short responses are drawn from.
WeekCatalogue == {LongChangelog[i] : i \in {4, 5, 6, 7, 8, 11}}

\* Longest response enumerated section by section.
MaxWeeks == 2

extendAll(shorter, S) == shorter \cup {Append(s, x) : s \in shorter, x \in S}

RECURSIVE SeqsUpTo(_, _)
SeqsUpTo(S, n) == IF n = 0 THEN {<<>>} ELSE extendAll(SeqsUpTo(S, n - 1), S)

\* What GET /api/release-notes may answer.
Responses == SeqsUpTo(WeekCatalogue, MaxWeeks) \cup {LongChangelog}

\* The dates the date inputs are set to.
FromDates == {<<"2", "0", "2", "6", "-", "0", "1", "-", "0", "7">>}

ToDates == {<<"2", "0", "2", "6", "-", "0", "1", "-", "0", "9">>}

(***************************************************************************)
(* Filtering and grouping into Wednesday cycles (app/page.tsx)             *)
(***************************************************************************)
VARIABLES
  allParsedWeeks,     \* the response of /api/release-notes
  visibleWeeksCount,  \* how many cycles are shown when nothing is filtered
  groupedWeeks,       \* the cycles on display
  loading,
  connectorFilter, typeFilter, fromDate, toDate,
  viewMode,           \* "summary" or "list"
  fetchPc             \* where fetchData stands: "idle", "fetching", "done",
                      \* or "crashed" once rendering has thrown

pageVars == <<allParsedWeeks, visibleWeeksCount, groupedWeeks, loading,
              connectorFilter, typeFilter, fromDate, toDate, viewMode, fetchPc>>

\* The four filter fields as one value.
Filters(connector, type, from, to) ==
  [connector |-> connector, type |-> type, fromDate |-> from, toDate |-> to]

NoFilter == Filters(All, "All", <<>>, <<>>)

isContentFiltered(f) == f.connector # All \/ f.type # "All"

isAnyFiltered(f) == isContentFiltered(f) \/ f.fromDate # <<>> \/ f.toDate # <<>>

\* The effect on isContentFiltered: list view is forced while it holds.
forcedView(mode, f) == IF isContentFiltered(f) THEN "list" ELSE mode

\* The render branch of a cycle: the executive summary or the item list.
rendersSummary(mode, f) == mode = "summary" /\ ~isContentFiltered(f)

\* cycleOf without the isWednesday test.
cycleOf_alwaysNext(date) == format(nextWednesday(date))

cycleOf(date) == format(IF isWednesday(date) THEN date ELSE nextWednesday(date))

\* The cycle an item dated dateStr belongs to.
getCycleId(dateStr) == cycleOf(parseISO(dateStr))

\* allParsedWeeks.flatMap(w => w.items)
RECURSIVE allItemsFlat(_)
allItemsFlat(weeks) ==
  IF weeks = <<>> THEN <<>> ELSE Head(weeks).items \o allItemsFlat(Tail(weeks))

EmptyRecord == [k \in {} |-> <<>>]

\* bumpVersion without the comparison: the last truthy version wins.
bumpVersion_last(versions, cycleId, item) ==
  IF Truthy(item.version)
  THEN [k \in DOMAIN versions \cup {cycleId} |->
          IF k = cycleId THEN item.version ELSE versions[k]]
  ELSE versions

\* versions[cycleId] after one item: the first truthy version, then any
\* version that compares greater as a string.
bumpVersion(versions, cycleId, item) ==
  IF /\ Truthy(item.version)
     /\ \/ cycleId \notin DOMAIN versions
        \/ StrLess(versions[cycleId], item.version)
  THEN [k \in DOMAIN versions \cup {cycleId} |->
          IF k = cycleId THEN item.version ELSE versions[k]]
  ELSE versions

\* pushItem that assigns [item] instead of pushing.
pushItem_overwrite(groups, cycleId, item) ==
  [k \in DOMAIN groups \cup {cycleId} |-> IF k = cycleId THEN <<item>> ELSE groups[k]]

\* groups[cycleId] after one item: created empty when missing, then pushed.
pushItem(groups, cycleId, item) ==
  [k \in DOMAIN groups \cup {cycleId} |->
     IF k = cycleId
     THEN Append(IF cycleId \in DOMAIN groups THEN groups[cycleId] ELSE <<>>, item)
     ELSE groups[k]]

\* One turn of the forEach over the flat list.
groupItem(acc, item, cycleId) ==
  [groups   |-> pushItem(acc.groups, cycleId, item),
   versions |-> bumpVersion(acc.versions, cycleId, item)]

\* The forEach over the flat list: [groups, versions].
RECURSIVE groupItems(_, _)
groupItems(items, acc) ==
  IF items = <<>> THEN acc
  ELSE groupItems(Tail(items),
                  groupItem(acc, Head(items), getCycleId(Head(items).originalDate)))

\* a.localeCompare(b) on date keys: -1, 0 or 1.
localeCompare(a, b) ==
  IF a = b THEN 0 ELSE IF StrLess(a, b) THEN -1 ELSE 1

\* firstKey with the comparator's operands swapped (a.localeCompare(b)).
firstKey_ascending(keys) ==
  CHOOSE a \in keys : \A b \in keys \ {a} : localeCompare(a, b) < 0

\* The key the comparator (a, b) => b.localeCompare(a) puts first.
firstKey(keys) ==
  CHOOSE a \in keys : \A b \in keys \ {a} : localeCompare(b, a) < 0

RECURSIVE sortFrom(_, _)
sortFrom(keys, first) ==
  IF keys = {first} THEN <<first>>
  ELSE <<first>> \o sortFrom(keys \ {first}, firstKey(keys \ {first}))

\* Object.keys(groups).sort((a, b) => b.localeCompare(a))
sortedKeys(keys) == IF keys = {} THEN <<>> ELSE sortFrom(keys, firstKey(keys))

\* passesDates with the lower bound exclusive.
passesDates_exclusiveFrom(itemDate, f) ==
  /\ ~(f.fromDate # <<>> /\ ~isAfter(itemDate, startOfDay(parseISO(f.fromDate))))
  /\ ~(f.toDate # <<>> /\ isAfter(itemDate, endOfDay(parseISO(f.toDate))))

passesDates(itemDate, f) ==
  /\ ~(f.fromDate # <<>> /\ isBefore(itemDate, startOfDay(parseISO(f.fromDate))))
  /\ ~(f.toDate # <<>> /\ isAfter(itemDate, endOfDay(parseISO(f.toDate))))

\* The predicate of items.filter(...) in the grouping effect.
passesFilter(item, f) ==
  /\ ~(f.connector # All /\ item.connector # f.connector)
  /\ ~(f.type # "All" /\ item.type # f.type)
  /\ passesDates(parseISO(item.originalDate), f)

filteredItems(items, f) == SelectSeq(items, LAMBDA item : passesFilter(item, f))

\* What new Date() reads while the page is open: noon of Wednesday
\* 2026-01-07, so that the catalogue holds a cycle that ended, the cycle
\* that ends today and a cycle still to end.
Now == [day |-> DaysFromCivil(2026, 1, 7), ms |-> 43200000]

\* format(new Date(), 'yyyy-MM-dd')
Today == format(Now)

\* isFuture(date): date > Date.now()
isFuture(date) == isAfter(date, Now)

\* isCurrent without the comparison with today's date.
isCurrent_futureOnly(cycleDateObj, key) == isFuture(cycleDateObj)

\* isFuture(cycleDateObj) || format(new Date(), 'yyyy-MM-dd') === key
isCurrent(cycleDateObj, key) == isFuture(cycleDateObj) \/ Today = key

\* The template of the headline: start, en dash, end.
headlineOf(startDate, endDate) ==
  formatMMMd(startDate) \o <<" ", "U+2013", " ">> \o formatMMMd(endDate)

\* startDate is seven days and endDate one day before the cycle date.
headline(cycleDateObj) ==
  headlineOf(setDateBy(cycleDateObj, -7), setDateBy(cycleDateObj, -1))

\* One cycle of the display (productionDate and the summary fields left
\* out).
releaseGroupOf(key, cycleDateObj, groups, versions, f) ==
  [id             |-> key,
   date           |-> key,
   headline       |-> headline(cycleDateObj),
   releaseVersion |-> IF key \in DOMAIN versions THEN versions[key] ELSE NullStr,
   items          |-> filteredItems(groups[key], f),
   isCurrentWeek  |-> isCurrent(cycleDateObj, key)]

\* The callback of sortedKeys.map: cycleDateObj is parseISO(key).
releaseGroup(key, groups, versions, f) ==
  releaseGroupOf(key, parseISO(key), groups, versions, f)

mapGroups(keys, acc, f) ==
  [i \in 1..Len(keys) |-> releaseGroup(keys[i], acc.groups, acc.versions, f)]

groupsOf(acc, f) == mapGroups(sortedKeys(DOMAIN acc.groups), acc, f)

\* Every cycle of the response, most recent first, each with the items that
\* pass the filter.
allGroupsMapped(weeks, f) ==
  groupsOf(groupItems(allItemsFlat(weeks),
                      [groups |-> EmptyRecord, versions |-> EmptyRecord]), f)

\* all.slice(0, count)
slice0(all, count) == SubSeq(all, 1, IF count < Len(all) THEN count ELSE Len(all))

shownOf(all, count, f) ==
  IF isAnyFiltered(f) THEN SelectSeq(all, LAMBDA g : Len(g.items) > 0)
  ELSE slice0(all, count)

\* What the effect hands to setGroupedWeeks.
visibleGroups(weeks, count, f) == shownOf(allGroupsMapped(weeks, f), count, f)

\* The grouping effect: it returns at once while no week is loaded.
groupingEffect(weeks, count, f, shown) ==
  IF Len(weeks) = 0 THEN shown ELSE visibleGroups(weeks, count, f)

hasMore(weeks, count, f) == ~isAnyFiltered(f) /\ count < Len(weeks) + 5

connectorsOf(flat) ==
  {flat[i].connector : i \in {j \in 1..Len(flat) : Truthy(flat[j].connector)}}

\* The connectors the dropdown offers.
connectors(weeks) == connectorsOf(allItemsFlat(weeks))

CurrentFilters == Filters(connectorFilter, typeFilter, fromDate, toDate)

\* useState initial values; the mount effect has not run yet.
InitialVisibleWeeks == 5

LoadStep == 2

(***************************************************************************)
(* Title cleaning (app/api/release-notes/route.ts, cleanTitle)             *)
(***************************************************************************)
\* The index of the first c at or after i, or 0.
firstAt(s, c, i) ==
  IF \E j \in i..Len(s) : s[j] = c
  THEN CHOOSE j \in i..Len(s) : s[j] = c /\ \A k \in i..(j - 1) : s[k] # c
  ELSE 0

\* The index of the last character of the run of class characters that
\* starts at i, or i - 1 when s[i] is not in the class.
RECURSIVE runEnd(_, _, _)
runEnd(s, class, i) ==
  IF i <= Len(s) /\ s[i] \in class THEN runEnd(s, class, i + 1) ELSE i - 1

GithubUrl == <<"h", "t", "t", "p", "s", ":", "/", "/", "g", "i", "t", "h", "u", "b", ".", "c", "o", "m">>

\* \]\(https:\/\/github\.com[^\)]*\) after the digits that end at e
prLinkTail(s, i, e) ==
  IF e >= i + 2 /\ IsAt(s, e + 1, <<"]", "(">> \o GithubUrl)
  THEN firstAt(s, ")", e + 3 + Len(GithubUrl))
  ELSE 0

\* /\[#\d+\]\(https:\/\/github\.com[^\)]*\)/
matchPrLink(s, i) ==
  IF IsAt(s, i, <<"[", "#">>) THEN prLinkTail(s, i, runEnd(s, Digit, i + 2)) ELSE 0

\* /\(https:\/\/github\.com[^\)]*\)/
matchGithubParen(s, i) ==
  IF IsAt(s, i, <<"(">> \o GithubUrl)
  THEN firstAt(s, ")", i + 1 + Len(GithubUrl))
  ELSE 0

closingAfter(s, e) == IF IsAt(s, e + 1, <<")">>) THEN e + 1 ELSE 0

\* /\(\s*\)/
matchEmptyParens(s, i) ==
  IF s[i] = "(" THEN closingAfter(s, runEnd(s, WhiteSpace, i + 1)) ELSE 0

\* /\*\*/
matchBold(s, i) == IF IsAt(s, i, <<"*", "*">>) THEN i + 1 ELSE 0

bracketEnd(i, q) == IF q > i + 1 THEN q ELSE 0

\* /\[[^\]]+\]/
matchBracketed(s, i) ==
  IF s[i] = "[" THEN bracketEnd(i, firstAt(s, "]", i + 1)) ELSE 0

\* the regex of one backtick (U+0060)
matchBacktick(s, i) == IF s[i] = "U+0060" THEN i ELSE 0

spacesEnd(i, e) == IF e >= i + 1 THEN e ELSE 0

\* /\s{2,}/
matchSpaces(s, i) == spacesEnd(i, runEnd(s, WhiteSpace, i))

\* The index of the last character of the match at i of the regex of
\* cleanTitle's rule-th statement, or 0 when it does not match there.
matchEnd(rule, s, i) ==
  CASE rule = 1 -> matchPrLink(s, i)
    [] rule = 2 -> matchGithubParen(s, i)
    [] rule = 3 -> matchEmptyParens(s, i)
    [] rule = 4 -> matchBold(s, i)
    [] rule = 5 -> matchBracketed(s, i)
    [] rule = 6 -> matchBacktick(s, i)
    [] rule = 7 -> matchSpaces(s, i)

\* text.replace(regex/g, rep): the scan resumes after each match.
RECURSIVE replaceAll(_, _, _, _)
replaceAll(rule, s, i, rep) ==
  IF i > Len(s) THEN <<>>
  ELSE IF matchEnd(rule, s, i) = 0 THEN <<s[i]>> \o replaceAll(rule, s, i + 1, rep)
  ELSE rep \o replaceAll(rule, s, matchEnd(rule, s, i) + 1, rep)

\* The class of /[-...:,;.\s]+$/ as route.ts has it: between - and : stand
\* the three characters of a mis-encoded en dash.
TrailingClass ==
  {"-", "U+00E2", "U+20AC", "U+201C", ":", ",", ";", "."} \cup WhiteSpace

\* text.replace(/[class]+$/, '')
RECURSIVE stripTrailing(_, _)
stripTrailing(s, class) ==
  IF s # <<>> /\ s[Len(s)] \in class
  THEN stripTrailing(SubSeq(s, 1, Len(s) - 1), class)
  ELSE s

\* The k-th statement of cleanTitle applied to text.
cleanStep(k, text) ==
  CASE k = 1 -> replaceAll(1, text, 1, <<>>)
    [] k = 2 -> replaceAll(2, text, 1, <<>>)
    [] k = 3 -> replaceAll(3, text, 1, <<>>)
    [] k = 4 -> replaceAll(4, text, 1, <<>>)
    [] k = 5 -> replaceAll(5, text, 1, <<>>)
    [] k = 6 -> replaceAll(6, text, 1, <<>>)
    [] k = 7 -> replaceAll(7, text, 1, <<" ">>)
    [] k = 8 -> trim(text)
    [] k = 9 -> stripTrailing(text, TrailingClass)

\* The value of text after each of the nine statements, from the k-th on.
RECURSIVE cleanStages(_, _)
stageThen(text, k) == <<text>> \o cleanStages(text, k + 1)

cleanStages(text, k) == IF k > 9 THEN <<>> ELSE stageThen(cleanStep(k, text), k)

cleanTitle(raw) == cleanStages(raw, 1)[9]

\* Fragments of a raw bullet; a bullet is up to MaxPieces of them in a row.
Pieces ==
  {<<"a">>, <<" ">>, <<"*">>, <<"U+0060">>, <<"[">>, <<"]">>, <<".">>, <<"U+20AC">>,
   <<"(">>, <<")">>,
   <<"[", "#", "1", "]">> \o <<"(", "h", "t", "t", "p", "s", ":", "/", "/", "g", "i", "t", "h", "u", "b", ".", "c", "o", "m", "/", "p", ")">>,
   <<"(", "h", "t", "t", "p", "s", ":", "/", "/", "g", "i", "t", "h", "u", "b", ".", "c", "o", "m", "/", "p", ")">>}

MaxPieces == 3

RECURSIVE concatAll(_)
concatAll(ss) == IF ss = <<>> THEN <<>> ELSE Head(ss) \o concatAll(Tail(ss))

RawBullets == {concatAll(ps) : ps \in SeqsUpTo(Pieces, MaxPieces)}

(***************************************************************************)
(* Changelog parsing (app/api/release-notes/route.ts, GET)                 *)
(***************************************************************************)
UpperLetters == <<"A", "B", "C", "D", "E", "F", "G", "H", "I", "J", "K", "L", "M", "N", "O", "P", "Q", "R", "S", "T", "U", "V", "W", "X", "Y", "Z">>

LowerLetters == <<"a", "b", "c", "d", "e", "f", "g", "h", "i", "j", "k", "l", "m", "n", "o", "p", "q", "r", "s", "t", "u", "v", "w", "x", "y", "z">>

mapChar(c, from, to) ==
  IF \E k \in 1..Len(from) : from[k] = c
  THEN to[CHOOSE k \in 1..Len(from) : from[k] = c]
  ELSE c

toLowerCase(s) == [i \in 1..Len(s) |-> mapChar(s[i], UpperLetters, LowerLetters)]

toUpperCase(s) == [i \in 1..Len(s) |-> mapChar(s[i], LowerLetters, UpperLetters)]

\* s.includes(lit)
includes(s, lit) == \E i \in 1..Len(s) : IsAt(s, i, lit)

\* words.join(sep)
RECURSIVE join(_, _)
join(words, sep) ==
  IF words = <<>> THEN <<>>
  ELSE IF Len(words) = 1 THEN words[1]
  ELSE words[1] \o sep \o join(Tail(words), sep)

\* word.charAt(0).toUpperCase() + word.slice(1)
capitalize(word) ==
  IF word = <<>> THEN <<>> ELSE toUpperCase(<<word[1]>>) \o Tail(word)

capitalizeAll(words) == [i \in 1..Len(words) |-> capitalize(words[i])]

\* normalizeConnector without toLowerCase().
normalizeConnector_keepCase(rawConnector) ==
  IF ~Truthy(rawConnector) THEN <<>>
  ELSE join(capitalizeAll(split(rawConnector, " ")), <<" ">>)

normalizeConnector(rawConnector) ==
  IF ~Truthy(rawConnector) THEN <<>>
  ELSE join(capitalizeAll(split(toLowerCase(rawConnector), " ")), <<" ">>)

\* \d{4}\. at i: the index of the dot, or 0.
yearDot(s, i) ==
  IF i + 4 <= Len(s) /\ (\A j \in i..(i + 3) : s[j] \in Digit) /\ s[i + 4] = "."
  THEN i + 4 ELSE 0

componentDot(s, i, e) ==
  IF e - i + 1 \in {1, 2} /\ IsAt(s, e + 1, <<".">>) THEN e + 1 ELSE 0

\* \d{1,2}\. after the dot at d: the index of the next dot, or 0.
thenComponent(s, d) ==
  IF d = 0 THEN 0 ELSE componentDot(s, d + 1, runEnd(s, Digit, d + 1))

lastComponent(i, e) == IF e < i THEN 0 ELSE IF e > i + 1 THEN i + 1 ELSE e

\* \d{1,2} after the dot at d, as many digits as it can take.
thenLast(s, d) ==
  IF d = 0 THEN 0 ELSE lastComponent(d + 1, runEnd(s, Digit, d + 1))

\* The version pattern with three components only.
versionEnd_threeComponents(s, i) == thenLast(s, thenComponent(s, yearDot(s, i)))

\* (\d{4}\.\d{1,2}\.\d{1,2}\.\d{1,2}) at i: the index of its last digit, or 0.
versionEnd(s, i) == thenLast(s, thenComponent(s, thenComponent(s, yearDot(s, i))))

skipBracket(s, i) == IF IsAt(s, i, <<"[">>) THEN i + 1 ELSE i

\* ^##\s*\[? : the index at which the version has to start, or 0.
versionStart(trimmed) ==
  IF IsAt(trimmed, 1, <<"#", "#">>)
  THEN skipBracket(trimmed, runEnd(trimmed, WhiteSpace, 3) + 1)
  ELSE 0

groupOf(s, i, e) == IF e = 0 THEN NullStr ELSE SubSeq(s, i, e)

groupFrom(s, i) == IF i = 0 THEN NullStr ELSE groupOf(s, i, versionEnd(s, i))

\* trimmed.match(/^##\s*\[?(\d{4}\.\d{1,2}\.\d{1,2}\.\d{1,2})\]?/): group 1,
\* NullStr when there is no match.
versionMatch(trimmed) == groupFrom(trimmed, versionStart(trimmed))

\* { id, date, headline, items: [] } for the header's version
newWeek(dateStr) ==
  [id |-> dateStr, date |-> dateStr,
   headline |-> <<"R", "e", "l", "e", "a", "s", "e", " ">> \o dateStr,
   items |-> <<>>]

\* trimmed.substring(1).trim()
contentOf(trimmed) == trim(Tail(trimmed))

typeOf(lower) ==
  IF \/ includes(lower, <<"f", "i", "x">>)
     \/ includes(lower, <<"b", "u", "g">>)
     \/ includes(lower, <<"r", "e", "s", "o", "l", "v", "e", "s">>)
  THEN "Bug Fix" ELSE "Feature"

\* The connector class with # added.
ConnectorClass_withHash ==
  {UpperLetters[k] : k \in 1..26} \cup {LowerLetters[k] : k \in 1..26}
    \cup Digit \cup {"_", "#"} \cup WhiteSpace

ConnectorClass ==
  {UpperLetters[k] : k \in 1..26} \cup {LowerLetters[k] : k \in 1..26}
    \cup Digit \cup {"_"} \cup WhiteSpace

connectorClose(s, i, e) ==
  IF e >= i + 1 /\ IsAt(s, e + 1, <<"]">>) THEN e + 1 ELSE 0

\* /\[([a-zA-Z0-9_\s]+)\]/ at i: the index of the closing bracket, or 0.
matchConnector(s, i) ==
  IF s[i] = "[" THEN connectorClose(s, i, runEnd(s, ConnectorClass, i + 1)) ELSE 0

\* content.match(connector regex).index + 1, or 0 without a match
firstConnector(s) ==
  IF \E i \in 1..Len(s) : matchConnector(s, i) # 0
  THEN CHOOSE i \in 1..Len(s) :
         matchConnector(s, i) # 0 /\ \A j \in 1..(i - 1) : matchConnector(s, j) = 0
  ELSE 0

connectorGroup(s, i) ==
  IF i = 0 THEN NullStr ELSE trim(SubSeq(s, i + 1, matchConnector(s, i) - 1))

\* connectorMatch ? connectorMatch[1].trim() : null
rawConnectorOf(content) == connectorGroup(content, firstConnector(content))

connectorOf(rawConnector) ==
  IF Truthy(rawConnector) THEN normalizeConnector(rawConnector) ELSE NullStr

\* [^\)]+\) from p on: the index of the closing parenthesis, or 0.
urlClose(p, q) == IF q > p THEN q ELSE 0

urlTail(s, i, e) ==
  IF e >= i + 2 /\ IsAt(s, e + 1, <<"]", "(">> \o GithubUrl \o <<"/">>)
  THEN urlClose(e + 4 + Len(GithubUrl), firstAt(s, ")", e + 4 + Len(GithubUrl)))
  ELSE 0

\* /\[#(\d+)\]\((https:\/\/github\.com\/[^\)]+)\)/ at i: the index of the
\* closing parenthesis, or 0.
matchPr(s, i) ==
  IF IsAt(s, i, <<"[", "#">>) THEN urlTail(s, i, runEnd(s, Digit, i + 2)) ELSE 0

\* The index of the last match of the PR regex, or 0 without a match.
firstPr_last(s) ==
  IF \E i \in 1..Len(s) : matchPr(s, i) # 0
  THEN CHOOSE i \in 1..Len(s) :
         matchPr(s, i) # 0 /\ \A j \in (i + 1)..Len(s) : matchPr(s, j) = 0
  ELSE 0

\* content.match(PR regex).index + 1, or 0 without a match
firstPr(s) ==
  IF \E i \in 1..Len(s) : matchPr(s, i) # 0
  THEN CHOOSE i \in 1..Len(s) :
         matchPr(s, i) # 0 /\ \A j \in 1..(i - 1) : matchPr(s, j) = 0
  ELSE 0

prNumberAt(s, i) ==
  IF i = 0 THEN NullStr ELSE SubSeq(s, i + 2, runEnd(s, Digit, i + 2))

prUrlAt(s, i) ==
  IF i = 0 THEN NullStr
  ELSE SubSeq(s, runEnd(s, Digit, i + 2) + 3, matchPr(s, i) - 1)

\* prMatch?.[1]
prNumberOf(content) == prNumberAt(content, firstPr(content))

\* prMatch?.[2]
prUrlOf(content) == prUrlAt(content, firstPr(content))

\* The item with its type detected on the cleaned title.
parsedItem_typeFromTitle(content, date, version) ==
  [title |-> cleanTitle(content),
   type |-> typeOf(toLowerCase(cleanTitle(content))),
   connector |-> connectorOf(rawConnectorOf(content)),
   prNumber |-> prNumberOf(content),
   prUrl |-> prUrlOf(content),
   originalDate |-> date,
   version |-> version]

\* The item GET pushes for a bullet whose content and title are not empty.
parsedItem(content, date, version) ==
  [title |-> cleanTitle(content),
   type |-> typeOf(toLowerCase(content)),
   connector |-> connectorOf(rawConnectorOf(content)),
   prNumber |-> prNumberOf(content),
   prUrl |-> prUrlOf(content),
   originalDate |-> date,
   version |-> version]

\* The item pushed to the first week, whichever week is open.
pushToWeek_first(weeks, currentWeek, item) ==
  [weeks EXCEPT ![1].items = Append(@, item)]

\* currentWeek.items.push(item); currentWeek is an element of weeks
pushToWeek(weeks, currentWeek, item) ==
  [weeks EXCEPT ![currentWeek].items = Append(@, item)]

\* trimmed.startsWith('-') && currentWeek
isBullet(trimmed, currentWeek) == IsAt(trimmed, 1, <<"-">>) /\ currentWeek # 0

\* Lines of a changelog: a bracketed version header; a bare header with zero-
\* padded components; a header of three components only; connector tag,
\* title, PR link; a plain bullet; an indented bullet with bold text and a
\* tag; a bullet of formatting only; a bullet with nothing after the dash; a
\* sub-heading.
\* The changelog of no line at all splits into one empty line.
LineCatalogue ==
  {<<"#", "#", " ", "[", "2", "0", "2", "6", ".", "1", ".", "7", ".", "0", "]">>,
   <<"#", "#", " ", "2", "0", "2", "6", ".", "0", "1", ".", "0", "5", ".", "2">>,
   <<"#", "#", " ", "[", "2", "0", "2", "6", ".", "1", ".", "7", "]">>,
   <<"-", " ", "[", "A", "D", "Y", "E", "N", "]", " ", "x", " ", "(", "[", "#", "1", "]", "(", "h", "t", "t", "p", "s", ":", "/", "/", "g", "i", "t", "h", "u", "b", ".", "c", "o", "m", "/", "p", "/", "1", ")", ")">>,
   <<"-", " ", "f", "i", "x", " ", "y">>,
   <<" ", " ", "-", " ", "*", "*", "A", "d", "d", "*", "*", " ", "[", "a", " ", "b", "]", " ", "c", ".">>,
   <<"-", " ", "*", "*", "*", "*">>,
   <<"-">>,
   <<"#", "#", "#", " ", "F", "e", "a", "t", "u", "r", "e", "s">>}

\* Longest changelog enumerated, in lines.
MaxLines == 3

\* What the fetch of CHANGELOG.md may return: lines joined by newlines.
Changelogs == {join(ls, <<"\n">>) : ls \in SeqsUpTo(LineCatalogue, MaxLines)}

\* emitsItem without the check of the title.
emitsItem_anyTitle(content) == content # <<>>

\* content passes both checks of the item branch: !content, !title
emitsItem(content) == content # <<>> /\ cleanTitle(content) # <<>>

FailedResponse == [error |-> "Failed to load data", status |-> 500]

\* What res.json() gives the page for that response.
ErrorBody == [error |-> FailedResponse.error]

\* Fragments of a bullet's content: words, brackets, connector tags (blank,
\* padded, with a tab, holding "bug"), a bracketed PR number without a link,
\* two PR links, fix vocabulary.
ItemPieces ==
  {<<"a">>,
   <<" ">>,
   <<"[">>,
   <<"]">>,
   <<"[", "A", "D", "Y", "E", "N", "]">>,
   <<"[", " ", "]">>,
   <<"[", " ", "s", "t", "r", "i", "p", "e", "_", "v", "2", " ", "]">>,
   <<"[", "a", "\t", "b", "]">>,
   <<"[", "d", "e", "b", "u", "g", "]">>,
   <<"[", "#", "3", "]">>,
   <<"[", "#", "1", "2", "]", "(", "h", "t", "t", "p", "s", ":", "/", "/", "g", "i", "t", "h", "u", "b", ".", "c", "o", "m", "/", "p", "/", "1", "2", ")">>,
   <<"[", "#", "7", "]", "(", "h", "t", "t", "p", "s", ":", "/", "/", "g", "i", "t", "h", "u", "b", ".", "c", "o", "m", "/", "b", "u", "g", "f", "i", "x", "/", "7", ")">>,
   <<"F", "i", "x">>,
   <<"r", "e", "s", "o", "l", "v", "e", "s">>}

\* Longest content enumerated, in fragments.
MaxItemPieces == 3

\* trimmed.substring(1).trim() of a bullet line
ItemContents == {trim(concatAll(ps)) : ps \in SeqsUpTo(ItemPieces, MaxItemPieces)}

\* The section the bullet stands in: header 2026.1.7.0.
SectionVersion == <<"2", "0", "2", "6", ".", "1", ".", "7", ".", "0">>

\* Fragments of the text between the brackets of a connector tag.
ConnectorPieces ==
  {<<"a">>, <<"B">>, <<" ">>, <<"_">>, <<"2">>, <<"\t">>,
   <<"A", "D", "Y", "E", "N">>, <<"a", "d", "y", "e", "n">>, <<"A", "d", "y", "e", "n">>}

\* Longest connector text enumerated, in fragments.
MaxConnectorPieces == 3

\* connectorMatch[1].trim() when it is truthy: what GET passes on.
ConnectorTexts ==
  {t \in {concatAll(ps) : ps \in SeqsUpTo(ConnectorPieces, MaxConnectorPieces)} :
     t # <<>> /\ trim(t) = t}

(***************************************************************************)
(* State of the route and actions of the three machines                    *)
(***************************************************************************)
\* One call of cleanTitle (route.ts).
VARIABLES
  raw,      \* the argument of cleanTitle
  stages,   \* text after each statement, once cleanTitle has run
  cleanPc   \* "off", "called", "returned"

cleanVars == <<raw, stages, cleanPc>>

\* Calls of normalizeConnector (route.ts), the second on the first one's
\* result.
VARIABLES
  connArg,  \* rawConnector of the first call
  connOut,  \* the values returned so far
  normPc    \* "off", "on"

normVars == <<connArg, connOut, normPc>>

\* The item branch of GET for one bullet (route.ts).
VARIABLES
  bullet,   \* content
  emitted,  \* the item pushed, NullStr when there is none
  itemPc    \* "off", "bullet", "pushed", "skipped"

itemVars == <<bullet, emitted, itemPc>>

\* One run of GET over a fetched changelog (route.ts).
VARIABLES
  changelog,       \* text, the changelog as fetched
  lines,           \* text.split('\n')
  lineNo,          \* the index of the line the loop is about to read
  weeks,           \* ReleaseWeek[] built so far
  currentWeek,     \* index in weeks of the week being filled, 0 for null
  currentVersion,  \* the version of the last header, NullStr for null
  response,        \* what GET answers, NullStr until it returns
  parsePc,         \* "off", "fetch", "loop", "returned", "failed"
  invocation,      \* 1 for the first call of GET, 2 for the second, 0 when off
  fetches,         \* the fetch calls the current invocation has made
  firstResponse    \* what the first invocation answered, once there is a second

callVars == <<invocation, fetches, firstResponse>>

parseVars == <<changelog, lines, lineNo, weeks, currentWeek, currentVersion,
               response, parsePc, callVars>>

coreVars == <<pageVars, cleanVars, parseVars, normVars, itemVars>>

\* chatCompletionWithFallback (lib/llm-client.ts): one call.
VARIABLES
  llmPc,         \* "off", "called", "only", "primary", "fallback",
                 \* "returned", "threw"
  llmModel,      \* params.model
  llmOption,     \* options?.fallbackModel
  llmParams,     \* the parameters other than the model
  requests,      \* the requests issued by the call, in order
  primaryError,  \* the error of the first request, NoError if none
  llmOutcome     \* what the call returned or threw

llmVars == <<llmPc, llmModel, llmOption, llmParams, requests, primaryError,
             llmOutcome>>

\* enhanceReleaseItems (lib/llm-enhancer.ts): one call.
VARIABLES
  enhPc,          \* "off", "called", "loop", "awaiting", "returned", "threw"
  enhItems,       \* the items argument
  batches,        \* the batches of the items
  batchNo,        \* the batch the for loop is at, from 1
  enhancedItems,  \* the enhanced items collected so far
  enhResult,      \* the value the call resolves with
  modelId,        \* process.env.AI_MODEL_ID || 'glm-latest'
  inFlight,       \* the chatCompletionWithFallback calls not yet settled
  failedBatch     \* the batch whose request was rejected, 0 if none

enhVars == <<enhPc, enhItems, batches, batchNo, enhancedItems, enhResult,
             modelId, inFlight, failedBatch>>

\* generateSummaryForWeek (app/page.tsx) with the POST handler of
\* app/api/generate-summary/route.ts: one call.
VARIABLES
  sumPc,          \* "off", "called", "chunks", "saving", "done"
  sumWeek,        \* the week argument: its id and the number of its items
  chunkResults,   \* per chunk request: pending, or what it settled with
  summaries,      \* the summaries state: pairs of week id and html
  generatingIds,
  failedIds,
  localStorage,   \* the browser cache entry: pairs of week id and html
  saved           \* the bodies posted to /api/save-summary

sumVars == <<sumPc, sumWeek, chunkResults, summaries, generatingIds,
             failedIds, localStorage, saved>>

aiVars == <<llmVars, enhVars, sumVars>>

PageInit ==
  /\ allParsedWeeks = <<>>
  /\ visibleWeeksCount = InitialVisibleWeeks
  /\ groupedWeeks = <<>>
  /\ loading = FALSE
  /\ connectorFilter = All
  /\ typeFilter = "All"
  /\ fromDate = <<>>
  /\ toDate = <<>>
  /\ viewMode = "summary"
  /\ fetchPc = "idle"

\* fetchData up to its await: setLoading(true) and the request.
FetchStart ==
  /\ fetchPc = "idle"
  /\ fetchPc' = "fetching"
  /\ loading' = TRUE
  /\ UNCHANGED <<allParsedWeeks, visibleWeeksCount, groupedWeeks,
                 connectorFilter, typeFilter, fromDate, toDate>>
  /\ UNCHANGED viewMode
  /\ UNCHANGED <<cleanVars, parseVars, normVars, itemVars, aiVars>>

\* The response arrives: setAllParsedWeeks, loading cleared, groups rebuilt.
FetchDone ==
  /\ fetchPc = "fetching"
  /\ \E rawWeeks \in Responses :
       /\ allParsedWeeks' = rawWeeks
       /\ groupedWeeks' = groupingEffect(rawWeeks, visibleWeeksCount,
                                         CurrentFilters, groupedWeeks)
  /\ loading' = FALSE
  /\ fetchPc' = "done"
  /\ UNCHANGED <<visibleWeeksCount, connectorFilter, typeFilter, fromDate, toDate>>
  /\ UNCHANGED viewMode
  /\ UNCHANGED <<cleanVars, parseVars, normVars, itemVars, aiVars>>

\* The request or res.json() throws: the catch logs, finally clears loading.
FetchThrows ==
  /\ fetchPc = "fetching"
  /\ loading' = FALSE
  /\ fetchPc' = "done"
  /\ UNCHANGED <<allParsedWeeks, visibleWeeksCount, groupedWeeks,
                 connectorFilter, typeFilter, fromDate, toDate>>
  /\ UNCHANGED viewMode
  /\ UNCHANGED <<cleanVars, parseVars, normVars, itemVars, aiVars>>

\* The route answers its 500 body, which res.json() parses like any other:
\* setAllParsedWeeks(body), loading cleared. The body is no array: its
\* length is undefined, so the grouping effect does not return early, and
\* body.flatMap is no function, so the connectors memo and the grouping
\* effect throw a TypeError and the page is gone.
FetchErrorBody ==
  /\ fetchPc = "fetching"
  /\ allParsedWeeks' = ErrorBody
  /\ loading' = FALSE
  /\ fetchPc' = "crashed"
  /\ UNCHANGED <<visibleWeeksCount, groupedWeeks, connectorFilter, typeFilter,
                 fromDate, toDate>>
  /\ UNCHANGED viewMode
  /\ UNCHANGED <<cleanVars, parseVars, normVars, itemVars, aiVars>>

SetConnectorFilter ==
  /\ fetchPc # "crashed"
  /\ \E c \in {All} \cup connectors(allParsedWeeks) :
       /\ c # connectorFilter
       /\ connectorFilter' = c
       /\ viewMode' = forcedView(viewMode, Filters(c, typeFilter, fromDate, toDate))
       /\ groupedWeeks' = groupingEffect(allParsedWeeks, visibleWeeksCount,
                            Filters(c, typeFilter, fromDate, toDate), groupedWeeks)
  /\ UNCHANGED <<allParsedWeeks, visibleWeeksCount, loading, typeFilter,
                 fromDate, toDate, fetchPc>>
  /\ UNCHANGED <<cleanVars, parseVars, normVars, itemVars, aiVars>>

SetTypeFilter ==
  /\ fetchPc # "crashed"
  /\ \E t \in {"All", "Feature", "Bug Fix"} :
       /\ t # typeFilter
       /\ typeFilter' = t
       /\ viewMode' = forcedView(viewMode, Filters(connectorFilter, t, fromDate, toDate))
       /\ groupedWeeks' = groupingEffect(allParsedWeeks, visibleWeeksCount,
                            Filters(connectorFilter, t, fromDate, toDate), groupedWeeks)
  /\ UNCHANGED <<allParsedWeeks, visibleWeeksCount, loading, connectorFilter,
                 fromDate, toDate, fetchPc>>
  /\ UNCHANGED <<cleanVars, parseVars, normVars, itemVars, aiVars>>

SetFromDate ==
  /\ fetchPc # "crashed"
  /\ \E d \in {<<>>} \cup FromDates :
       /\ d # fromDate
       /\ fromDate' = d
       /\ groupedWeeks' = groupingEffect(allParsedWeeks, visibleWeeksCount,
                            Filters(connectorFilter, typeFilter, d, toDate), groupedWeeks)
  /\ UNCHANGED <<allParsedWeeks, visibleWeeksCount, loading, connectorFilter,
                 typeFilter, toDate, fetchPc>>
  /\ UNCHANGED viewMode
  /\ UNCHANGED <<cleanVars, parseVars, normVars, itemVars, aiVars>>

SetToDate ==
  /\ fetchPc # "crashed"
  /\ \E d \in {<<>>} \cup ToDates :
       /\ d # toDate
       /\ toDate' = d
       /\ groupedWeeks' = groupingEffect(allParsedWeeks, visibleWeeksCount,
                            Filters(connectorFilter, typeFilter, fromDate, d), groupedWeeks)
  /\ UNCHANGED <<allParsedWeeks, visibleWeeksCount, loading, connectorFilter,
                 typeFilter, fromDate, fetchPc>>
  /\ UNCHANGED viewMode
  /\ UNCHANGED <<cleanVars, parseVars, normVars, itemVars, aiVars>>

\* The EXECUTIVE button sets the summary view whatever is filtered.
ClickExecutive_always ==
  /\ fetchPc # "crashed"
  /\ viewMode' = "summary"
  /\ UNCHANGED <<allParsedWeeks, visibleWeeksCount, groupedWeeks, loading,
                 connectorFilter, typeFilter, fromDate, toDate, fetchPc>>
  /\ UNCHANGED <<cleanVars, parseVars, normVars, itemVars, aiVars>>

\* The EXECUTIVE button: !isContentFiltered && setViewMode('summary').
ClickExecutive ==
  /\ fetchPc # "crashed"
  /\ viewMode' = IF isContentFiltered(CurrentFilters) THEN viewMode ELSE "summary"
  /\ UNCHANGED <<allParsedWeeks, visibleWeeksCount, groupedWeeks, loading,
                 connectorFilter, typeFilter, fromDate, toDate, fetchPc>>
  /\ UNCHANGED <<cleanVars, parseVars, normVars, itemVars, aiVars>>

\* The list button: setViewMode('list').
ClickList ==
  /\ fetchPc # "crashed"
  /\ viewMode' = "list"
  /\ UNCHANGED <<allParsedWeeks, visibleWeeksCount, groupedWeeks, loading,
                 connectorFilter, typeFilter, fromDate, toDate, fetchPc>>
  /\ UNCHANGED <<cleanVars, parseVars, normVars, itemVars, aiVars>>

\* "Load Previous Weeks", rendered while hasMore.
LoadPreviousWeeks ==
  /\ fetchPc # "crashed"
  /\ hasMore(allParsedWeeks, visibleWeeksCount, CurrentFilters)
  /\ visibleWeeksCount' = visibleWeeksCount + LoadStep
  /\ groupedWeeks' = groupingEffect(allParsedWeeks, visibleWeeksCount + LoadStep,
                                    CurrentFilters, groupedWeeks)
  /\ UNCHANGED <<allParsedWeeks, loading, connectorFilter, typeFilter,
                 fromDate, toDate, fetchPc>>
  /\ UNCHANGED viewMode
  /\ UNCHANGED <<cleanVars, parseVars, normVars, itemVars, aiVars>>

PageOff ==
  /\ allParsedWeeks = <<>> /\ visibleWeeksCount = InitialVisibleWeeks
  /\ groupedWeeks = <<>> /\ loading = FALSE /\ connectorFilter = All
  /\ typeFilter = "All" /\ fromDate = <<>> /\ toDate = <<>> /\ fetchPc = "off"
  /\ viewMode = "summary"

CleanOff == raw = <<>> /\ stages = <<>> /\ cleanPc = "off"

CleanInit == raw \in RawBullets /\ stages = <<>> /\ cleanPc = "called"

CleanTitle ==
  /\ cleanPc = "called"
  /\ stages' = cleanStages(raw, 1)
  /\ cleanPc' = "returned"
  /\ UNCHANGED <<raw, pageVars, parseVars, normVars, itemVars, aiVars>>

ParseOff ==
  /\ changelog = <<>> /\ lines = <<>> /\ lineNo = 0 /\ weeks = <<>>
  /\ currentWeek = 0 /\ currentVersion = NullStr /\ response = NullStr
  /\ parsePc = "off"
  /\ invocation = 0 /\ fetches = 0 /\ firstResponse = NullStr

\* GET is entered: the fetch is awaited.
ParseInit ==
  /\ changelog = <<>> /\ lines = <<>> /\ lineNo = 0 /\ weeks = <<>>
  /\ currentWeek = 0 /\ currentVersion = NullStr /\ response = NullStr
  /\ parsePc = "fetch"
  /\ invocation = 1 /\ fetches = 0 /\ firstResponse = NullStr

\* The fetch answers ok and the loop starts with a week already open.
FetchChangelog_weekOpen ==
  /\ parsePc = "fetch"
  /\ \E t \in Changelogs :
       /\ invocation = 2 => t = changelog
       /\ changelog' = t
       /\ lines' = split(t, "\n")
  /\ fetches' = fetches + 1
  /\ weeks' = <<newWeek(versionDate(SectionVersion))>>
  /\ currentWeek' = 1 /\ currentVersion' = SectionVersion
  /\ lineNo' = 1
  /\ parsePc' = "loop"
  /\ UNCHANGED <<response, invocation, firstResponse>>
  /\ UNCHANGED <<pageVars, cleanVars, normVars, itemVars, aiVars>>

\* The fetch answers ok and the loop starts on the weeks, the open week and
\* the version the last invocation left.
FetchChangelog_keepsWeeks ==
  /\ parsePc = "fetch"
  /\ \E t \in Changelogs :
       /\ invocation = 2 => t = changelog
       /\ changelog' = t
       /\ lines' = split(t, "\n")
  /\ fetches' = fetches + 1
  /\ lineNo' = 1
  /\ parsePc' = "loop"
  /\ UNCHANGED <<weeks, currentWeek, currentVersion>>
  /\ UNCHANGED <<response, invocation, firstResponse>>
  /\ UNCHANGED <<pageVars, cleanVars, normVars, itemVars, aiVars>>

\* The fetch answers ok, and on a second invocation the same text: text is
\* split, weeks, currentWeek and currentVersion are declared, the loop
\* starts.
FetchChangelog ==
  /\ parsePc = "fetch"
  /\ \E t \in Changelogs :
       /\ invocation = 2 => t = changelog
       /\ changelog' = t
       /\ lines' = split(t, "\n")
  /\ fetches' = fetches + 1
  /\ weeks' = <<>> /\ currentWeek' = 0 /\ currentVersion' = NullStr
  /\ lineNo' = 1
  /\ parsePc' = "loop"
  /\ UNCHANGED <<response, invocation, firstResponse>>
  /\ UNCHANGED <<pageVars, cleanVars, normVars, itemVars, aiVars>>

\* fetch throws or !res.ok and the request is made once more.
FetchFails_retry ==
  /\ parsePc = "fetch" /\ fetches < 2
  /\ fetches' = fetches + 1
  /\ UNCHANGED <<changelog, lines, lineNo, weeks, currentWeek, currentVersion>>
  /\ UNCHANGED <<response, parsePc, invocation, firstResponse>>
  /\ UNCHANGED <<pageVars, cleanVars, normVars, itemVars, aiVars>>

\* fetch throws or !res.ok: the catch block answers 500.
FetchFails ==
  /\ parsePc = "fetch"
  /\ fetches' = fetches + 1
  /\ response' = FailedResponse
  /\ parsePc' = "failed"
  /\ UNCHANGED <<changelog, lines, lineNo, weeks, currentWeek, currentVersion>>
  /\ UNCHANGED <<invocation, firstResponse>>
  /\ UNCHANGED <<pageVars, cleanVars, normVars, itemVars, aiVars>>

\* The line is a version header: a new week is opened.
ReadHeader ==
  /\ parsePc = "loop" /\ lineNo <= Len(lines)
  /\ versionMatch(trim(lines[lineNo])) # NullStr
  /\ currentVersion' = versionMatch(trim(lines[lineNo]))
  /\ weeks' = Append(weeks, newWeek(versionDate(versionMatch(trim(lines[lineNo])))))
  /\ currentWeek' = Len(weeks) + 1
  /\ lineNo' = lineNo + 1
  /\ UNCHANGED <<changelog, lines, response, parsePc>>
  /\ UNCHANGED <<callVars, pageVars, cleanVars, normVars, itemVars, aiVars>>

\* The line is a bullet under a week and yields an item.
ReadBullet ==
  /\ parsePc = "loop" /\ lineNo <= Len(lines)
  /\ versionMatch(trim(lines[lineNo])) = NullStr
  /\ isBullet(trim(lines[lineNo]), currentWeek)
  /\ emitsItem(contentOf(trim(lines[lineNo])))
  /\ weeks' = pushToWeek(weeks, currentWeek,
                parsedItem(contentOf(trim(lines[lineNo])),
                           weeks[currentWeek].date, currentVersion))
  /\ lineNo' = lineNo + 1
  /\ UNCHANGED <<changelog, lines, currentWeek, currentVersion, response, parsePc>>
  /\ UNCHANGED <<callVars, pageVars, cleanVars, normVars, itemVars, aiVars>>

\* The line is a bullet under a week whose content or title is empty:
\* continue.
SkipBullet ==
  /\ parsePc = "loop" /\ lineNo <= Len(lines)
  /\ versionMatch(trim(lines[lineNo])) = NullStr
  /\ isBullet(trim(lines[lineNo]), currentWeek)
  /\ ~emitsItem(contentOf(trim(lines[lineNo])))
  /\ lineNo' = lineNo + 1
  /\ UNCHANGED <<changelog, lines, weeks, currentWeek, currentVersion, response, parsePc>>
  /\ UNCHANGED <<callVars, pageVars, cleanVars, normVars, itemVars, aiVars>>

\* Any other line falls through the loop body.
SkipLine ==
  /\ parsePc = "loop" /\ lineNo <= Len(lines)
  /\ versionMatch(trim(lines[lineNo])) = NullStr
  /\ ~isBullet(trim(lines[lineNo]), currentWeek)
  /\ lineNo' = lineNo + 1
  /\ UNCHANGED <<changelog, lines, weeks, currentWeek, currentVersion, response, parsePc>>
  /\ UNCHANGED <<callVars, pageVars, cleanVars, normVars, itemVars, aiVars>>

\* The loop is over: NextResponse.json(weeks).
ReturnWeeks ==
  /\ parsePc = "loop" /\ lineNo > Len(lines)
  /\ response' = weeks
  /\ parsePc' = "returned"
  /\ UNCHANGED <<changelog, lines, lineNo, weeks, currentWeek, currentVersion>>
  /\ UNCHANGED <<callVars, pageVars, cleanVars, normVars, itemVars, aiVars>>

\* GET is invoked once more after it has answered: the fetch is awaited;
\* weeks, currentWeek and currentVersion hold the last invocation's values
\* until this invocation declares its own.
GetAgain ==
  /\ parsePc = "returned" /\ invocation = 1
  /\ firstResponse' = response
  /\ invocation' = 2
  /\ fetches' = 0
  /\ response' = NullStr
  /\ lines' = <<>> /\ lineNo' = 0
  /\ parsePc' = "fetch"
  /\ UNCHANGED <<changelog, weeks, currentWeek, currentVersion>>
  /\ UNCHANGED <<pageVars, cleanVars, normVars, itemVars, aiVars>>

NormOff == connArg = <<>> /\ connOut = <<>> /\ normPc = "off"

NormInit == connArg \in ConnectorTexts /\ connOut = <<>> /\ normPc = "on"

\* normalizeConnector(rawConnector), then normalizeConnector of its result.
NormalizeConnector ==
  /\ normPc = "on" /\ Len(connOut) < 2
  /\ connOut' = Append(connOut, normalizeConnector(IF connOut = <<>> THEN connArg
                                                    ELSE connOut[Len(connOut)]))
  /\ UNCHANGED <<connArg, normPc, pageVars, cleanVars, parseVars, itemVars, aiVars>>

ItemOff == bullet = <<>> /\ emitted = NullStr /\ itemPc = "off"

ItemInit == bullet \in ItemContents /\ emitted = NullStr /\ itemPc = "bullet"

\* Content and title are not empty: the item is built and pushed.
PushItem ==
  /\ itemPc = "bullet"
  /\ emitsItem(bullet)
  /\ emitted' = parsedItem(bullet, versionDate(SectionVersion), SectionVersion)
  /\ itemPc' = "pushed"
  /\ UNCHANGED <<bullet, pageVars, cleanVars, parseVars, normVars, aiVars>>

\* Content or title is empty: continue.
SkipItem ==
  /\ itemPc = "bullet"
  /\ ~emitsItem(bullet)
  /\ itemPc' = "skipped"
  /\ UNCHANGED <<bullet, emitted, pageVars, cleanVars, parseVars, normVars, aiVars>>

(***************************************************************************)
(* Responses of the language model                                         *)
(* A response text is a sequence of tokens: punctuation, string literals   *)
(* and bare words (null, numbers, prose).                                  *)
(***************************************************************************)
Punct(t) == [t |-> t, v |-> ""]

Str(v) == [t |-> "str", v |-> v]

Word(v) == [t |-> "word", v |-> v]

\* { "enhanced_title": a, "description": b } as tokens.
EnhancedObject(a, b) ==
  <<Punct("{"), Str("enhanced_title"), Punct(":"), Str(a), Punct(","),
    Str("description"), Punct(":"), Str(b), Punct("}")>>

\* { "title": a, "desc": b, "impact": c } as tokens.
ShortObject(a, b, c) ==
  <<Punct("{"), Str("title"), Punct(":"), Str(a), Punct(","), Str("desc"), Punct(":"), Str(b),
    Punct(","), Str("impact"), Punct(":"), Str(c), Punct("}")>>

ResponseCatalogue ==
  { <<>>,
    <<Word("Sorry"), Word("no")>>,
    <<Punct("["), Punct("]")>>,
    <<Punct("{"), Punct("}")>>,
    <<Word("null")>>,
    <<Punct("["), Word("null"), Punct("]")>>,
    <<Punct("["), Word("1"), Punct(","), Word("2"), Punct("]")>>,
    <<Punct("[")>> \o EnhancedObject("Refunds for Adyen", "Adds refunds") \o <<Punct("]")>>,
    <<Word("Here"), Punct("[")>> \o ShortObject("Faster", "Cache", "Speed") \o <<Punct(",")>>
       \o EnhancedObject("", "") \o <<Punct("]"), Word("Done")>>,
    <<Punct("{"), Str("enhanced_items"), Punct(":"), Punct("[")>>
       \o EnhancedObject("A", "a") \o <<Punct(",")>> \o EnhancedObject("B", "b")
       \o <<Punct(",")>> \o EnhancedObject("C", "c") \o <<Punct("]"), Punct("}")>>,
    <<Punct("{"), Str("enhanced_title"), Punct(":"), Str("Lonely"), Punct("}")>>,
    <<Punct("[")>> \o EnhancedObject("Cut", "off") \o <<Punct(","), Punct("{"), Str("title"), Punct("]")>> }

(***************************************************************************)
(* JSON.parse over tokens                                                  *)
(***************************************************************************)
\* A JavaScript value: kind is "undefined", "null", "string", "number",
\* "boolean", "array" or "object".
JValue(kind, str, elems, keys, vals) ==
  [kind |-> kind, str |-> str, elems |-> elems, keys |-> keys, vals |-> vals]

JUndefined == JValue("undefined", "", <<>>, <<>>, <<>>)

JNull == JValue("null", "", <<>>, <<>>, <<>>)

JStr(v) == JValue("string", v, <<>>, <<>>, <<>>)

JArray(elems) == JValue("array", "", elems, <<>>, <<>>)

JObject(keys, vals) == JValue("object", "", <<>>, keys, vals)

IsScalarToken(tok) ==
  \/ tok.t = "str"
  \/ tok.t = "word" /\ tok.v \in {"null", "true", "false", "0", "1", "2"}

ScalarOf(tok) ==
  IF tok.t = "str" THEN JStr(tok.v)
  ELSE IF tok.v = "null" THEN JNull
  ELSE IF tok.v \in {"true", "false"} THEN JValue("boolean", tok.v, <<>>, <<>>, <<>>)
  ELSE JValue("number", tok.v, <<>>, <<>>, <<>>)

\* An open container of the parser: st is what may follow.
Frame(kind, st, elems, keys, vals) ==
  [kind |-> kind, st |-> st, elems |-> elems, keys |-> keys, vals |-> vals]

\* The parser: its stack of open containers and the value once complete.
ParseState(ok, stack, has, out) ==
  [ok |-> ok, stack |-> stack, has |-> has, out |-> out]

ParseStart == ParseState(TRUE, <<>>, FALSE, JUndefined)

ParseFailed == ParseState(FALSE, <<>>, FALSE, JUndefined)

Top(stack) == stack[Len(stack)]

Pop(stack) == SubSeq(stack, 1, Len(stack) - 1)

ReplaceTop(stack, frame) == Append(Pop(stack), frame)

\* A value may start here.
ExpectsValue(ps) ==
  /\ ~ps.has
  /\ \/ ps.stack = <<>>
     \/ Top(ps.stack).kind = "array" /\ Top(ps.stack).st \in {"start", "value"}
     \/ Top(ps.stack).kind = "object" /\ Top(ps.stack).st = "val"

\* A complete value joins the open container, or is the result.
AddTo(frame, val) ==
  IF frame.kind = "array"
    THEN Frame("array", "after", Append(frame.elems, val), <<>>, <<>>)
    ELSE Frame("object", "after", <<>>, frame.keys, Append(frame.vals, val))

AddValue(stack, val) ==
  IF stack = <<>>
    THEN ParseState(TRUE, <<>>, TRUE, val)
    ELSE ParseState(TRUE, ReplaceTop(stack, AddTo(Top(stack), val)), FALSE, JUndefined)

OpenFrame(tok) ==
  IF tok.t = "[" THEN Frame("array", "start", <<>>, <<>>, <<>>)
                 ELSE Frame("object", "start", <<>>, <<>>, <<>>)

ClosedValue(frame) ==
  IF frame.kind = "array" THEN JArray(frame.elems)
                          ELSE JObject(frame.keys, frame.vals)

Closes(tok, frame) ==
  /\ frame.st \in {"start", "after"}
  /\ \/ tok.t = "]" /\ frame.kind = "array"
     \/ tok.t = "}" /\ frame.kind = "object"

ExpectsKey(ps) ==
  /\ ps.stack # <<>>
  /\ Top(ps.stack).kind = "object"
  /\ Top(ps.stack).st \in {"start", "key"}

WithSt(frame, st) == Frame(frame.kind, st, frame.elems, frame.keys, frame.vals)

WithKey(frame, key) ==
  Frame("object", "colon", <<>>, Append(frame.keys, key), frame.vals)

\* One token.
ParseStep(ps, tok) ==
  IF ~ps.ok THEN ps
  ELSE IF tok.t \in {"[", "{"}
    THEN IF ExpectsValue(ps)
           THEN ParseState(TRUE, Append(ps.stack, OpenFrame(tok)), FALSE, JUndefined)
           ELSE ParseFailed
  ELSE IF tok.t \in {"]", "}"}
    THEN IF ps.stack # <<>> /\ Closes(tok, Top(ps.stack))
           THEN AddValue(Pop(ps.stack), ClosedValue(Top(ps.stack)))
           ELSE ParseFailed
  ELSE IF tok.t = ","
    THEN IF ps.stack # <<>> /\ Top(ps.stack).st = "after"
           THEN ParseState(TRUE,
                  ReplaceTop(ps.stack,
                    WithSt(Top(ps.stack),
                           IF Top(ps.stack).kind = "array" THEN "value" ELSE "key")),
                  FALSE, JUndefined)
           ELSE ParseFailed
  ELSE IF tok.t = ":"
    THEN IF ps.stack # <<>> /\ Top(ps.stack).st = "colon"
           THEN ParseState(TRUE, ReplaceTop(ps.stack, WithSt(Top(ps.stack), "val")),
                           FALSE, JUndefined)
           ELSE ParseFailed
  ELSE IF tok.t = "str" /\ ExpectsKey(ps)
    THEN ParseState(TRUE, ReplaceTop(ps.stack, WithKey(Top(ps.stack), tok.v)),
                    FALSE, JUndefined)
  ELSE IF IsScalarToken(tok) /\ ExpectsValue(ps)
    THEN AddValue(ps.stack, ScalarOf(tok))
  ELSE ParseFailed

RECURSIVE ParseFrom(_, _, _)
ParseFrom(toks, i, ps) ==
  IF i > Len(toks) THEN ps
  ELSE ParseFrom(toks, i + 1, ParseStep(ps, toks[i]))

\* JSON.parse: ok is FALSE where it throws a SyntaxError.
JSONparse(toks) == ParseFrom(toks, 1, ParseStart)

Parses(toks) == JSONparse(toks).ok /\ JSONparse(toks).has

(***************************************************************************)
(* The LLM client (lib/llm-client.ts)                                      *)
(***************************************************************************)
FALLBACK_MODEL == "glm-latest"

\* An undefined value of JavaScript.
Undefined == "undefined"

ModelIds == {"glm-latest", "gpt-4o"}

\* options?.fallbackModel as a caller may pass it.
FallbackOptions == {Undefined, "", "glm-latest", "gpt-4o"}

Prompts == {<<"p1">>, <<"p2">>}

\* An error a request is rejected with: status 0 and the empty code and type
\* stand for fields the error does not carry.
ApiError(status, code, type) == [status |-> status, code |-> code, type |-> type]

NoError == ApiError(-1, "none", "none")

ErrorCatalogue ==
  { ApiError(0, "", ""),
    ApiError(400, "", "invalid_request_error"),
    ApiError(401, "invalid_api_key", ""),
    ApiError(429, "", ""),
    ApiError(499, "", ""),
    ApiError(500, "", ""),
    ApiError(503, "", ""),
    ApiError(404, "model_not_found", ""),
    ApiError(400, "invalid_model_error", ""),
    ApiError(0, "service_unavailable", ""),
    ApiError(0, "", "rate_limit_error"),
    ApiError(0, "", "server_error"),
    ApiError(400, "context_length_exceeded", "invalid_request_error") }

\* isRetriableError without the rate-limit status.
isRetriableError_no429(error) ==
  \/ error.status >= 500
  \/ error.code = "model_not_found"
  \/ error.code = "invalid_model_error"
  \/ error.code = "service_unavailable"
  \/ error.type = "rate_limit_error"
  \/ error.type = "server_error"

isRetriableError(error) ==
  \/ error.status = 429
  \/ error.status >= 500
  \/ error.code = "model_not_found"
  \/ error.code = "invalid_model_error"
  \/ error.code = "service_unavailable"
  \/ error.type = "rate_limit_error"
  \/ error.type = "server_error"

\* options?.fallbackModel || FALLBACK_MODEL
fallbackModelOf(option) ==
  IF option = Undefined \/ option = "" THEN FALLBACK_MODEL ELSE option

\* The argument of client.chat.completions.create.
Request(model, rest) == [model |-> model, params |-> rest]

NoOutcome == [kind |-> "none", content |-> <<>>, error |-> NoError]

Returned(content) == [kind |-> "completion", content |-> content, error |-> NoError]

Thrown(error) == [kind |-> "error", content |-> <<>>, error |-> error]

\* message.content of the completions the service answers with.
Completions == ResponseCatalogue

LlmOff ==
  /\ llmPc = "off" /\ llmModel = "" /\ llmOption = Undefined
  /\ llmParams = <<>> /\ requests = <<>> /\ primaryError = NoError
  /\ llmOutcome = NoOutcome

\* A caller's call: chatCompletionWithFallback(params, options).
LlmCalled(model, option, rest) ==
  /\ llmPc' = "called"
  /\ llmModel' = model
  /\ llmOption' = option
  /\ llmParams' = rest
  /\ requests' = <<>>
  /\ primaryError' = NoError
  /\ llmOutcome' = NoOutcome

LlmInit ==
  /\ llmPc = "called"
  /\ llmModel \in ModelIds
  /\ llmOption \in FallbackOptions
  /\ llmParams \in Prompts
  /\ requests = <<>>
  /\ primaryError = NoError
  /\ llmOutcome = NoOutcome

\* The first create(params), inside the try unless the primary model is the
\* fallback model.
CreatePrimary ==
  /\ llmPc = "called"
  /\ requests' = Append(requests, Request(llmModel, llmParams))
  /\ llmPc' = IF llmModel = fallbackModelOf(llmOption) THEN "only" ELSE "primary"
  /\ UNCHANGED <<llmModel, llmOption, llmParams, primaryError, llmOutcome>>

\* The awaited request resolves: its completion is returned.
RequestSucceeds(content) ==
  /\ llmPc \in {"only", "primary", "fallback"}
  /\ llmPc' = "returned"
  /\ llmOutcome' = Returned(content)
  /\ UNCHANGED <<llmModel, llmOption, llmParams, requests, primaryError>>

\* The only request is rejected: nothing catches.
OnlyFails(error) ==
  /\ llmPc = "only"
  /\ primaryError' = error
  /\ llmPc' = "threw"
  /\ llmOutcome' = Thrown(error)
  /\ UNCHANGED <<llmModel, llmOption, llmParams, requests>>

\* The primary request is rejected: the catch falls back on a retriable
\* error and rethrows any other.
PrimaryFails(error) ==
  /\ llmPc = "primary"
  /\ primaryError' = error
  /\ IF isRetriableError(error)
       THEN /\ requests' = Append(requests,
                                  Request(fallbackModelOf(llmOption), llmParams))
            /\ llmPc' = "fallback"
            /\ llmOutcome' = llmOutcome
       ELSE /\ requests' = requests
            /\ llmPc' = "threw"
            /\ llmOutcome' = Thrown(error)
  /\ UNCHANGED <<llmModel, llmOption, llmParams>>

\* The fallback request is rejected: its error is thrown.
FallbackFails(error) ==
  /\ llmPc = "fallback"
  /\ llmPc' = "threw"
  /\ llmOutcome' = Thrown(error)
  /\ UNCHANGED <<llmModel, llmOption, llmParams, requests, primaryError>>

\* The call issues its first request.
LlmCreatePrimary ==
  /\ CreatePrimary
  /\ UNCHANGED <<coreVars, enhVars, sumVars>>

LlmRequestSucceeds ==
  /\ \E content \in Completions : RequestSucceeds(content)
  /\ UNCHANGED <<coreVars, enhVars, sumVars>>

LlmOnlyFails ==
  /\ \E error \in ErrorCatalogue : OnlyFails(error)
  /\ UNCHANGED <<coreVars, enhVars, sumVars>>

LlmPrimaryFails ==
  /\ \E error \in ErrorCatalogue : PrimaryFails(error)
  /\ UNCHANGED <<coreVars, enhVars, sumVars>>

LlmFallbackFails ==
  /\ \E error \in ErrorCatalogue : FallbackFails(error)
  /\ UNCHANGED <<coreVars, enhVars, sumVars>>

(***************************************************************************)
(* The enhancer (lib/llm-enhancer.ts)                                      *)
(***************************************************************************)
batchSize == 5

MaxEnhItems == 6

NullConnector == "<null>"

EnhTitles ==
  <<"add refunds", "fix webhook", "add payouts", "fix retries",
    "add mandates", "fix routing", "add disputes", "fix currency">>

EnhConnectors == <<"ADYEN", NullConnector, "STRIPE">>

PrNumbers == <<"101", "102", "103", "104", "105", "106", "107", "108">>

\* The k-th release item of the input.
EnhInputItem(k) ==
  [title |-> EnhTitles[((k - 1) % Len(EnhTitles)) + 1],
   type |-> IF k % 2 = 1 THEN "Feature" ELSE "Bug Fix",
   connector |-> EnhConnectors[((k - 1) % Len(EnhConnectors)) + 1],
   prNumber |-> PrNumbers[((k - 1) % Len(PrNumbers)) + 1],
   prUrl |-> "https://github.com/juspay/hyperswitch/pull",
   originalDate |-> IF k <= 3 THEN "2026-01-07" ELSE "2026-01-06"]

EnhInputs == {[k \in 1..n |-> EnhInputItem(k)] : n \in 0..MaxEnhItems}

\* process.env.AI_MODEL_ID || 'glm-latest'
EnvModelIds == {"glm-latest", "gpt-4o"}

\* items.slice(i, j) from a 0-based i.
sliceOf(list, i, j) ==
  SubSeq(list, i + 1, IF j < Len(list) THEN j ELSE Len(list))

RECURSIVE batchesFrom(_, _, _)
batchesFrom(list, i, size) ==
  IF i >= Len(list) THEN <<>>
  ELSE <<sliceOf(list, i, i + size)>> \o batchesFrom(list, i + size, size)

\* Batches of one item more.
batchesOf_six(list) == batchesFrom(list, 0, batchSize + 1)

\* The for loop that fills batches.
batchesOf(list) == batchesFrom(list, 0, batchSize)

\* buildEnhancementPrompt: what of each item goes into the prompt.
promptLine(item, index) ==
  [index |-> index + 1, original |-> item.title, type |-> item.type,
   connector |-> IF item.connector \in {NullConnector, ""} THEN "" ELSE item.connector,
   pr |-> IF item.prNumber = "" THEN "N/A" ELSE item.prNumber]

buildEnhancementPrompt(batch) ==
  [k \in 1..Len(batch) |-> promptLine(batch[k], k - 1)]

\* message.content || '{}'
responseTextOf(content) ==
  IF content = <<>> THEN <<Punct("{"), Punct("}")>> ELSE content

\* The first and the last position of a token, 0 if there is none.
firstTokenOf(toks, t) ==
  IF \E i \in 1..Len(toks) : toks[i].t = t
    THEN CHOOSE i \in 1..Len(toks) :
           toks[i].t = t /\ \A j \in 1..(i - 1) : toks[j].t # t
    ELSE 0

lastTokenOf(toks, t) ==
  IF \E i \in 1..Len(toks) : toks[i].t = t
    THEN CHOOSE i \in 1..Len(toks) :
           toks[i].t = t /\ \A j \in (i + 1)..Len(toks) : toks[j].t # t
    ELSE 0

\* text.match(/<open>[\s\S]*<close>/): from the first open to the last close.
hasSpan(toks, open, close) ==
  firstTokenOf(toks, open) > 0 /\ lastTokenOf(toks, close) > firstTokenOf(toks, open)

spanOf(toks, open, close) ==
  SubSeq(toks, firstTokenOf(toks, open), lastTokenOf(toks, close))

\* jsonString: the array match, else the object match, else the text.
extractJson(toks) ==
  IF hasSpan(toks, "[", "]") THEN spanOf(toks, "[", "]")
  ELSE IF hasSpan(toks, "{", "}") THEN spanOf(toks, "{", "}")
  ELSE toks

JsTruthy(val) ==
  ~ \/ val.kind \in {"undefined", "null", "absent"}
    \/ val.kind = "string" /\ val.str = ""
    \/ val.kind = "number" /\ val.str = "0"
    \/ val.kind = "boolean" /\ val.str = "false"

\* obj[key] of a parsed object: the last member of that name.
hasKey(obj, key) == \E i \in 1..Len(obj.keys) : obj.keys[i] = key

memberOf(obj, key) ==
  obj.vals[CHOOSE i \in 1..Len(obj.keys) :
             obj.keys[i] = key /\ \A j \in (i + 1)..Len(obj.keys) : obj.keys[j] # key]

\* val.key where val is not null: undefined unless an object has it.
getProp(val, key) ==
  IF val.kind = "object" /\ hasKey(val, key) THEN memberOf(val, key) ELSE JUndefined

\* a || b || ... : the first truthy operand, else the last.
RECURSIVE orChain(_)
orChain(operands) ==
  IF Len(operands) = 1 \/ JsTruthy(operands[1]) THEN operands[1]
  ELSE orChain(Tail(operands))

\* itemsArray of a parsed response that is not null.
itemsArrayOf(val) ==
  IF val.kind = "array" THEN val.elems
  ELSE IF JsTruthy(getProp(val, "enhanced_items")) /\ getProp(val, "enhanced_items").kind = "array"
    THEN getProp(val, "enhanced_items").elems
  ELSE IF JsTruthy(getProp(val, "items")) /\ getProp(val, "items").kind = "array"
    THEN getProp(val, "items").elems
  ELSE <<>>

Absent == JValue("absent", "", <<>>, <<>>, <<>>)

EnhancedReleaseItem(item, enhancedTitle, description, businessImpact) ==
  [title |-> item.title, type |-> item.type, connector |-> item.connector,
   prNumber |-> item.prNumber, prUrl |-> item.prUrl,
   originalDate |-> item.originalDate,
   enhancedTitle |-> enhancedTitle, description |-> description,
   businessImpact |-> businessImpact]

\* { ...item, enhancedTitle: item.title, description: item.title }
minimalItem(item) ==
  EnhancedReleaseItem(item, JStr(item.title), JStr(item.title), Absent)

minimalItems(list) == [k \in 1..Len(list) |-> minimalItem(list[k])]

\* batch[idx] || batch[0]
originalOf(batch, idx) == IF idx < Len(batch) THEN batch[idx + 1] ELSE batch[1]

\* The callback of itemsArray.map.
enhancedItem(original, enhanced) ==
  EnhancedReleaseItem(original,
    orChain(<<getProp(enhanced, "enhanced_title"), getProp(enhanced, "title"),
              getProp(enhanced, "enhancedTitle"), JStr(original.title)>>),
    orChain(<<getProp(enhanced, "description"), getProp(enhanced, "desc"),
              JStr(original.title)>>),
    orChain(<<getProp(enhanced, "business_impact"), getProp(enhanced, "impact"),
              getProp(enhanced, "businessImpact")>>))

\* Reading a property of null throws a TypeError.
mapThrows(itemsArray) == \E i \in 1..Len(itemsArray) : itemsArray[i].kind = "null"

batchEnhanced(batch, itemsArray) ==
  [k \in 1..Len(itemsArray) |-> enhancedItem(originalOf(batch, k - 1), itemsArray[k])]

\* What a batch adds to enhancedItems given its items array.
pushedFor(batch, itemsArray) ==
  IF Len(itemsArray) > 0 /\ ~mapThrows(itemsArray)
    THEN batchEnhanced(batch, itemsArray)
    ELSE minimalItems(batch)

\* The inner try and its catch, given the result of JSON.parse.
pushedForParse(batch, ps) ==
  IF ~(ps.ok /\ ps.has) \/ ps.out.kind = "null"
    THEN minimalItems(batch)
    ELSE pushedFor(batch, itemsArrayOf(ps.out))

\* What the loop body adds to enhancedItems for a completion.
batchOutput(batch, content) ==
  pushedForParse(batch, JSONparse(extractJson(responseTextOf(content))))

EnhInit ==
  /\ enhPc = "called"
  /\ enhItems \in EnhInputs
  /\ modelId \in EnvModelIds
  /\ batches = <<>> /\ batchNo = 0
  /\ enhancedItems = <<>> /\ enhResult = <<>> /\ inFlight = 0
  /\ failedBatch = 0

\* enhanceReleaseItems up to the loop.
EnhanceReleaseItems ==
  /\ enhPc = "called"
  /\ IF Len(enhItems) = 0
       THEN /\ enhPc' = "returned"
            /\ enhResult' = <<>>
            /\ UNCHANGED <<batches, batchNo>>
       ELSE /\ enhPc' = "loop"
            /\ batches' = batchesOf(enhItems)
            /\ batchNo' = 1
            /\ enhResult' = enhResult
  /\ enhancedItems' = <<>>
  /\ UNCHANGED <<enhItems, modelId, inFlight, failedBatch>>
  /\ UNCHANGED <<coreVars, llmVars, sumVars>>

\* The loop body up to its await: the request for the next batch.
StartBatch ==
  /\ enhPc = "loop"
  /\ batchNo <= Len(batches)
  /\ LlmCalled(modelId, Undefined, buildEnhancementPrompt(batches[batchNo]))
  /\ inFlight' = inFlight + 1
  /\ enhPc' = "awaiting"
  /\ UNCHANGED <<enhItems, modelId, batches, batchNo, enhancedItems, enhResult,
                 failedBatch>>
  /\ UNCHANGED <<coreVars, sumVars>>

\* The request was rejected: the outer catch returns without enhancedItems.
HandleFailure_partial ==
  /\ enhPc = "awaiting"
  /\ llmPc = "threw"
  /\ inFlight' = inFlight - 1
  /\ failedBatch' = batchNo
  /\ enhResult' = enhancedItems \o minimalItems(batches[batchNo])
  /\ enhPc' = "returned"
  /\ UNCHANGED <<enhItems, modelId, batches, batchNo, enhancedItems>>
  /\ UNCHANGED <<coreVars, llmVars, sumVars>>

\* The rest of the loop body once the completion is there.
HandleCompletion ==
  /\ enhPc = "awaiting"
  /\ llmPc = "returned"
  /\ inFlight' = inFlight - 1
  /\ enhancedItems' = enhancedItems \o batchOutput(batches[batchNo], llmOutcome.content)
  /\ batchNo' = batchNo + 1
  /\ enhPc' = "loop"
  /\ UNCHANGED <<enhItems, modelId, batches, enhResult, failedBatch>>
  /\ UNCHANGED <<coreVars, llmVars, sumVars>>

\* The request was rejected: the outer catch returns every item unenhanced.
HandleFailure ==
  /\ enhPc = "awaiting"
  /\ llmPc = "threw"
  /\ inFlight' = inFlight - 1
  /\ failedBatch' = batchNo
  /\ enhResult' = minimalItems(enhItems)
  /\ enhPc' = "returned"
  /\ UNCHANGED <<enhItems, modelId, batches, batchNo, enhancedItems>>
  /\ UNCHANGED <<coreVars, llmVars, sumVars>>

\* return enhancedItems
ReturnEnhanced ==
  /\ enhPc = "loop"
  /\ batchNo > Len(batches)
  /\ enhResult' = enhancedItems
  /\ enhPc' = "returned"
  /\ UNCHANGED <<enhItems, modelId, batches, batchNo, enhancedItems, inFlight,
                 failedBatch>>
  /\ UNCHANGED <<coreVars, llmVars, sumVars>>

(***************************************************************************)
(* Summary generation (app/page.tsx, generateSummaryForWeek, and           *)
(* app/api/generate-summary/route.ts, POST)                                *)
(***************************************************************************)
CHUNK_SIZE == 35

\* items.slice(0, 15) of the route
SafeItemCount == 15

SumItemCounts == {0, 1, CHUNK_SIZE, CHUNK_SIZE + 1}

SummaryWeek(n) ==
  [id |-> "2026-01-07", date |-> "2026-01-07", items |-> [k \in 1..n |-> k]]

\* What summary-cache.json and the browser cache may hold for the week.
CachedHtml == <<"c", "a", "c", "h", "e", "d">>

StaticCaches == {{}, {<<"2026-01-07", CachedHtml>>}}

\* message.content of the completion the route receives.
RawContents ==
  { <<>>,
    <<"<", "l", "i", ">", "a", "<", "/", "l", "i", ">">>,
    <<"H", "e", "r", "e", ":", " ", "<", "l", "i", ">", "b", "<", "/", "l", "i", ">">>,
    <<"U+0060", "U+0060", "U+0060", "h", "t", "m", "l", "<", "l", "i", ">", "c",
      "<", "/", "l", "i", ">", "U+0060", "U+0060", "U+0060">>,
    <<"n", "o", " ", "l", "i", "s", "t">> }

\* s.indexOf(lit) + 1, 0 when s does not hold lit.
indexOfLit(s, lit) ==
  IF \E i \in 1..Len(s) : IsAt(s, i, lit)
    THEN CHOOSE i \in 1..Len(s) :
           IsAt(s, i, lit) /\ \A j \in 1..(i - 1) : ~IsAt(s, j, lit)
    ELSE 0

\* s.replace(/lit/g, '')
RECURSIVE removeLit(_, _, _)
removeLit(s, i, lit) ==
  IF i > Len(s) THEN <<>>
  ELSE IF IsAt(s, i, lit) THEN removeLit(s, i + Len(lit), lit)
  ELSE <<s[i]>> \o removeLit(s, i + 1, lit)

fromListStart(rawContent) ==
  IF indexOfLit(rawContent, <<"<", "l", "i">>) # 0
    THEN SubSeq(rawContent, indexOfLit(rawContent, <<"<", "l", "i">>), Len(rawContent))
    ELSE rawContent

\* cleanHtml of the route.
cleanHtml(rawContent) ==
  removeLit(removeLit(fromListStart(rawContent), 1,
                      <<"U+0060", "U+0060", "U+0060", "h", "t", "m", "l">>),
            1, <<"U+0060", "U+0060", "U+0060">>)

\* What a chunk request settles with: st is "pending", "resolved" with the
\* parsed body, or "rejected".
ChunkResult(st, status, hasFragment, fragment, asked) ==
  [st |-> st, status |-> status, hasFragment |-> hasFragment,
   fragment |-> fragment, asked |-> asked]

Pending == ChunkResult("pending", 0, FALSE, <<>>, 0)

Rejected == ChunkResult("rejected", 0, FALSE, <<>>, 0)

\* NextResponse.json({ error: 'Failed' }, { status: 500 })
ErrorResponse(asked) == ChunkResult("resolved", 500, FALSE, <<>>, asked)

\* NextResponse.json({ summaryFragment })
FragmentResponse(fragment, asked) == ChunkResult("resolved", 200, TRUE, fragment, asked)

safeItems(list) == sliceOf(list, 0, SafeItemCount)

\* POST of the route for a chunk whose completion carries rawContent.
postResponse(chunkItems, rawContent) ==
  IF Len(chunkItems) = 0 THEN FragmentResponse(<<>>, 0)
  ELSE FragmentResponse(cleanHtml(rawContent), Len(safeItems(chunkItems)))

\* The chunks of week.items.
chunksOf(list) == batchesFrom(list, 0, CHUNK_SIZE)

\* r.summaryFragment || ''
fragmentOf(result) == IF result.hasFragment THEN result.fragment ELSE <<>>

RECURSIVE combinedFragments(_)
combinedFragments(rs) ==
  IF rs = <<>> THEN <<>> ELSE fragmentOf(Head(rs)) \o combinedFragments(Tail(rs))

\* { ...prev, [id]: html } of a record kept as a set of pairs.
withEntry(cache, id, html) == {e \in cache : e[1] # id} \cup {<<id, html>>}

SumInit ==
  /\ sumPc = "called"
  /\ sumWeek \in {SummaryWeek(n) : n \in SumItemCounts}
  /\ chunkResults = <<>>
  /\ summaries \in StaticCaches
  /\ generatingIds = {}
  /\ failedIds \in {{}, {"2026-01-07"}}
  /\ localStorage \in StaticCaches
  /\ saved = <<>>

\* generateSummaryForWeek up to await Promise.all: the chunk requests go out.
GenerateSummaryForWeek ==
  /\ sumPc = "called"
  /\ generatingIds' = generatingIds \cup {sumWeek.id}
  /\ failedIds' = failedIds \ {sumWeek.id}
  /\ chunkResults' = [c \in 1..Len(chunksOf(sumWeek.items)) |-> Pending]
  /\ sumPc' = "chunks"
  /\ UNCHANGED <<sumWeek, summaries, localStorage, saved>>
  /\ UNCHANGED <<coreVars, llmVars, enhVars>>

\* The route answers a chunk request with a fragment.
PostSummary ==
  /\ sumPc = "chunks"
  /\ \E c \in 1..Len(chunkResults) : \E rawContent \in RawContents :
       /\ chunkResults[c] = Pending
       /\ chunkResults' =
            [chunkResults EXCEPT ![c] =
               postResponse(chunksOf(sumWeek.items)[c], rawContent)]
  /\ UNCHANGED <<sumPc, sumWeek, summaries, generatingIds, failedIds,
                 localStorage, saved>>
  /\ UNCHANGED <<coreVars, llmVars, enhVars>>

\* The route's catch: the completion request threw.
PostSummaryFails ==
  /\ sumPc = "chunks"
  /\ \E c \in 1..Len(chunkResults) :
       /\ chunkResults[c] = Pending
       /\ chunkResults' =
            [chunkResults EXCEPT ![c] =
               ErrorResponse(Len(safeItems(chunksOf(sumWeek.items)[c])))]
  /\ UNCHANGED <<sumPc, sumWeek, summaries, generatingIds, failedIds,
                 localStorage, saved>>
  /\ UNCHANGED <<coreVars, llmVars, enhVars>>

\* fetch of a chunk rejects: a network error.
ChunkFetchRejects ==
  /\ sumPc = "chunks"
  /\ \E c \in 1..Len(chunkResults) :
       /\ chunkResults[c] = Pending
       /\ chunkResults' = [chunkResults EXCEPT ![c] = Rejected]
  /\ UNCHANGED <<sumPc, sumWeek, summaries, generatingIds, failedIds,
                 localStorage, saved>>
  /\ UNCHANGED <<coreVars, llmVars, enhVars>>

\* Promise.all rejects: catch and finally.
ChunksRejected ==
  /\ sumPc = "chunks"
  /\ \E c \in 1..Len(chunkResults) : chunkResults[c] = Rejected
  /\ failedIds' = failedIds \cup {sumWeek.id}
  /\ generatingIds' = generatingIds \ {sumWeek.id}
  /\ sumPc' = "done"
  /\ UNCHANGED <<sumWeek, chunkResults, summaries, localStorage, saved>>
  /\ UNCHANGED <<coreVars, llmVars, enhVars>>

\* Promise.all resolves: the summary is stored and posted to save-summary.
ChunksResolved ==
  /\ sumPc = "chunks"
  /\ \A c \in 1..Len(chunkResults) : chunkResults[c].st = "resolved"
  /\ summaries' = withEntry(summaries, sumWeek.id, combinedFragments(chunkResults))
  /\ localStorage' = withEntry(localStorage, sumWeek.id, combinedFragments(chunkResults))
  /\ saved' = Append(saved, <<sumWeek.id, combinedFragments(chunkResults)>>)
  /\ sumPc' = "saving"
  /\ UNCHANGED <<sumWeek, chunkResults, generatingIds, failedIds>>
  /\ UNCHANGED <<coreVars, llmVars, enhVars>>

\* fetch of save-summary resolves: finally.
SaveSettles ==
  /\ sumPc = "saving"
  /\ generatingIds' = generatingIds \ {sumWeek.id}
  /\ sumPc' = "done"
  /\ UNCHANGED <<sumWeek, chunkResults, summaries, failedIds, localStorage, saved>>
  /\ UNCHANGED <<coreVars, llmVars, enhVars>>

\* fetch of save-summary rejects: catch and finally.
SaveRejects ==
  /\ sumPc = "saving"
  /\ failedIds' = failedIds \cup {sumWeek.id}
  /\ generatingIds' = generatingIds \ {sumWeek.id}
  /\ sumPc' = "done"
  /\ UNCHANGED <<sumWeek, chunkResults, summaries, localStorage, saved>>
  /\ UNCHANGED <<coreVars, llmVars, enhVars>>

EnhOff ==
  /\ enhPc = "off" /\ enhItems = <<>> /\ batches = <<>> /\ batchNo = 0
  /\ enhancedItems = <<>> /\ enhResult = <<>> /\ inFlight = 0
  /\ failedBatch = 0 /\ modelId = ""

SumOff ==
  /\ sumPc = "off" /\ sumWeek = SummaryWeek(0) /\ chunkResults = <<>>
  /\ summaries = {} /\ generatingIds = {} /\ failedIds = {}
  /\ localStorage = {} /\ saved = <<>>

AiOff == LlmOff /\ EnhOff /\ SumOff

(***************************************************************************)
(* Specifications                                                          *)
(***************************************************************************)
vars == <<coreVars, aiVars>>

\* The page: the mount fetch, the filter controls, "Load Previous Weeks".
Init == PageInit /\ CleanOff /\ ParseOff /\ NormOff /\ ItemOff /\ AiOff

Next ==
  \/ FetchStart
  \/ FetchDone
  \/ FetchThrows
  \/ FetchErrorBody
  \/ SetConnectorFilter
  \/ SetTypeFilter
  \/ SetFromDate
  \/ SetToDate
  \/ ClickExecutive
  \/ ClickList
  \/ LoadPreviousWeeks

Spec == Init /\ [][Next]_vars

\* cleanTitle on every raw bullet of RawBullets.
InitClean == CleanInit /\ PageOff /\ ParseOff /\ NormOff /\ ItemOff /\ AiOff

NextClean == CleanTitle

SpecClean == InitClean /\ [][NextClean]_vars

\* GET over every changelog of Changelogs.
InitParse == ParseInit /\ PageOff /\ CleanOff /\ NormOff /\ ItemOff /\ AiOff

NextParse ==
  \/ FetchChangelog
  \/ FetchFails
  \/ ReadHeader
  \/ ReadBullet
  \/ SkipBullet
  \/ SkipLine
  \/ ReturnWeeks
  \/ GetAgain

SpecParse == InitParse /\ [][NextParse]_vars

\* normalizeConnector on every text of ConnectorTexts.
InitNorm == NormInit /\ PageOff /\ CleanOff /\ ParseOff /\ ItemOff /\ AiOff

NextNorm == NormalizeConnector

SpecNorm == InitNorm /\ [][NextNorm]_vars

\* The item branch on every content of ItemContents.
InitItem == ItemInit /\ PageOff /\ CleanOff /\ ParseOff /\ NormOff /\ AiOff

NextItem ==
  \/ PushItem
  \/ SkipItem

SpecItem == InitItem /\ [][NextItem]_vars

\* One call of chatCompletionWithFallback.
InitLlm ==
  /\ LlmInit /\ EnhOff /\ SumOff
  /\ PageOff /\ CleanOff /\ ParseOff /\ NormOff /\ ItemOff

NextLlm ==
  \/ LlmCreatePrimary
  \/ LlmRequestSucceeds
  \/ LlmOnlyFails
  \/ LlmPrimaryFails
  \/ LlmFallbackFails

SpecLlm == InitLlm /\ [][NextLlm]_vars

\* One call of enhanceReleaseItems, with the requests of its batches.
InitEnhance ==
  /\ EnhInit /\ LlmOff /\ SumOff
  /\ PageOff /\ CleanOff /\ ParseOff /\ NormOff /\ ItemOff

NextEnhance ==
  \/ EnhanceReleaseItems
  \/ StartBatch
  \/ LlmCreatePrimary
  \/ LlmRequestSucceeds
  \/ LlmOnlyFails
  \/ LlmPrimaryFails
  \/ LlmFallbackFails
  \/ HandleCompletion
  \/ HandleFailure
  \/ ReturnEnhanced

SpecEnhance == InitEnhance /\ [][NextEnhance]_vars

\* One call of generateSummaryForWeek, with the route's answers.
InitSummary ==
  /\ SumInit /\ LlmOff /\ EnhOff
  /\ PageOff /\ CleanOff /\ ParseOff /\ NormOff /\ ItemOff

NextSummary ==
  \/ GenerateSummaryForWeek
  \/ PostSummary
  \/ PostSummaryFails
  \/ ChunkFetchRejects
  \/ ChunksRejected
  \/ ChunksResolved
  \/ SaveSettles
  \/ SaveRejects

SpecSummary == InitSummary /\ [][NextSummary]_vars

(***************************************************************************)
(* Properties of the grouper and the filter                                *)
(***************************************************************************)
\* The weeks the page holds; none once it has crashed on an error body.
LoadedWeeks == IF fetchPc = "crashed" THEN <<>> ELSE allParsedWeeks

\* The cycles the grouper builds from the loaded response (before the
\* display keeps the first visibleWeeksCount of them).
Cycles == allGroupsMapped(LoadedWeeks, CurrentFilters)

\* The same cycles with every item kept.
FullCycles == allGroupsMapped(LoadedWeeks, NoFilter)

FlatItems == allItemsFlat(LoadedWeeks)

DayOf(dateStr) == parseISO(dateStr).day

\* The date k is a Wednesday 0 to 6 days after the date d, and d itself
\* exactly when d is a Wednesday.
WednesdayWithinWeek(k, d) ==
  /\ k # InvalidDate
  /\ getDay(k) = 3
  /\ k.day - d.day \in 0..6
  /\ (k.day = d.day) <=> (getDay(d) = 3)

\* The date key is the first Wednesday on or after the date of every item
\* of the cycle g.
AnchoredCycle(g, key) ==
  \A j \in 1..Len(g.items) :
    WednesdayWithinWeek(key, parseISO(g.items[j].originalDate))

AnchoredCycles(G) == \A i \in 1..Len(G) : AnchoredCycle(G[i], parseISO(G[i].id))

\* The dates of the items of flat, in order.
RECURSIVE DatesOf(_)
DatesOf(flat) ==
  IF flat = <<>> THEN <<>>
  ELSE <<parseISO(Head(flat).originalDate)>> \o DatesOf(Tail(flat))

\* flat[a] and flat[b] are in one cycle of G.
ShareCycle(G, flat, a, b) ==
  \E i \in 1..Len(G) :
    /\ \E j \in 1..Len(G[i].items) : G[i].items[j] = flat[a]
    /\ \E j \in 1..Len(G[i].items) : G[i].items[j] = flat[b]

\* The same for flat with dates the dates of its items.
ThursdayJoinsWednesdayOn(G, flat, dates) ==
  \A a \in {k \in 1..Len(flat) : getDay(dates[k]) = 3} :
    \A b \in {k \in 1..Len(flat) : dates[k].day = dates[a].day - 6} :
      ShareCycle(G, flat, a, b)

\* In G a Wednesday item of flat and an item of the Thursday six days earlier
\* share a cycle.
ThursdayJoinsWednesday(G, flat) == ThursdayJoinsWednesdayOn(G, flat, DatesOf(flat))

CyclesAnchored(G, shown, flat) ==
  /\ AnchoredCycles(G)
  /\ AnchoredCycles(shown)
  /\ ThursdayJoinsWednesday(G, flat)

\* C1: every item placed in a cycle has as cycle key the first Wednesday on
\* or after its originalDate (a Wednesday, 0 to 6 days later, 0 exactly for
\* a Wednesday item); a Wednesday item and an item of the Thursday six days
\* earlier are in the same cycle.
C1_CycleKeyIsFirstWednesday == CyclesAnchored(FullCycles, groupedWeeks, FlatItems)

\* A displayed cycle holds a Wednesday item and an item of the Thursday six
\* days before it.
C1_Witness ==
  \E i \in 1..Len(groupedWeeks) :
    \E a \in 1..Len(groupedWeeks[i].items), b \in 1..Len(groupedWeeks[i].items) :
      /\ groupedWeeks[i].items[a].originalDate = groupedWeeks[i].id
      /\ DayOf(groupedWeeks[i].items[b].originalDate) = DayOf(groupedWeeks[i].id) - 6

\* The cycles G partition the list flat by cycle end.
IsPartition(G, flat) ==
  /\ \A i \in 1..Len(G) :
       G[i].items = SelectSeq(flat, LAMBDA it : getCycleId(it.originalDate) = G[i].id)
  /\ \A k \in 1..Len(flat) :
       \E i \in 1..Len(G) : G[i].id = getCycleId(flat[k].originalDate)
  /\ \A i \in 1..Len(G), j \in 1..Len(G) : G[i].id = G[j].id => i = j
  /\ \A i \in 1..Len(G) : G[i].items # <<>>

\* C2: with no filter active the cycles partition the flat list: each cycle
\* holds exactly the flat list's items whose cycle end is its key, in the
\* flat list's order, every item's key is some cycle's key, and no two
\* cycles share a key.
C2_GroupingIsPartition ==
  ~isAnyFiltered(CurrentFilters) => IsPartition(Cycles, FlatItems)

\* Unfiltered, a cycle of three or more items next to another cycle.
C2_Witness ==
  /\ fetchPc = "done"
  /\ ~isAnyFiltered(CurrentFilters)
  /\ Len(Cycles) >= 2
  /\ \E i \in 1..Len(Cycles) : Len(Cycles[i].items) >= 3

\* The day numbers of the keys of G, in order.
RECURSIVE KeyDays(_)
KeyDays(G) == IF G = <<>> THEN <<>> ELSE <<DayOf(Head(G).id)>> \o KeyDays(Tail(G))

\* Each cycle of G, whose keys are the days days, comes before every cycle
\* with a smaller key, by string and by day.
DescendingOn(G, days) ==
  \A i \in 1..Len(G) : \A j \in (i + 1)..Len(G) :
    /\ StrLess(G[j].id, G[i].id)
    /\ days[j] < days[i]

StrictlyDescending(G) == DescendingOn(G, KeyDays(G))

\* C3: in every filter state the cycles are strictly descending by key, the
\* most recent first, so no two share a key.
C3_CyclesStrictlyDescending ==
  /\ StrictlyDescending(Cycles)
  /\ StrictlyDescending(groupedWeeks)

\* A filter is on, two or more cycles are shown, and the response listed an
\* older item before a newer one.
C3_Witness ==
  /\ isAnyFiltered(CurrentFilters)
  /\ Len(groupedWeeks) >= 2
  /\ Len(FlatItems) >= 2
  /\ DayOf(FlatItems[1].originalDate) + 7 < DayOf(FlatItems[Len(FlatItems)].originalDate)

\* The non-null versions of a cycle's items.
MemberVersions(g) ==
  {g.items[k].version : k \in {n \in 1..Len(g.items) : g.items[n].version # NullStr}}

\* g.releaseVersion is the greatest member version, null when there is none.
IsStringMax(g) ==
  /\ (g.releaseVersion = NullStr) <=> (MemberVersions(g) = {})
  /\ g.releaseVersion # NullStr =>
       /\ g.releaseVersion \in MemberVersions(g)
       /\ \A v \in MemberVersions(g) : ~StrLess(g.releaseVersion, v)

AllStringMax(G) == \A i \in 1..Len(G) : IsStringMax(G[i])

\* C4: with no filter active a cycle's releaseVersion is the greatest, by
\* string comparison, of its members' non-null versions, and null exactly
\* when no member carries one.
C4_ReleaseVersionIsStringMax ==
  ~isAnyFiltered(CurrentFilters) => AllStringMax(Cycles)

\* The cycle of 2026.1.7.0, 2026.1.7.2 and 2026.1.5.0 on display, unfiltered,
\* with releaseVersion 2026.1.7.2.
C4_Witness ==
  /\ ~isAnyFiltered(CurrentFilters)
  /\ \E i \in 1..Len(groupedWeeks) :
       /\ {<<"2", "0", "2", "6", ".", "1", ".", "7", ".", "0">>,
           <<"2", "0", "2", "6", ".", "1", ".", "7", ".", "2">>,
           <<"2", "0", "2", "6", ".", "1", ".", "5", ".", "0">>} \subseteq MemberVersions(groupedWeeks[i])
       /\ groupedWeeks[i].releaseVersion = <<"2", "0", "2", "6", ".", "1", ".", "7", ".", "2">>

\* The numeric components of a version id.
versionNumbers(v) == [i \in 1..Len(split(v, ".")) |-> NumberOf(split(v, ".")[i])]

\* a before b when the components are compared as numbers, left to right.
RECURSIVE NumLess(_, _)
NumLess(a, b) ==
  IF a = <<>> \/ b = <<>> THEN FALSE
  ELSE IF Head(a) = Head(b) THEN NumLess(Tail(a), Tail(b))
  ELSE Head(a) < Head(b)

\* C5: the releaseVersion of a cycle (no filter active) is its latest
\* version: no member's version is greater when the components are compared
\* numerically.
C5_ReleaseVersionIsLatest ==
  ~isAnyFiltered(CurrentFilters) =>
    \A i \in 1..Len(Cycles) : \A v \in MemberVersions(Cycles[i]) :
      ~NumLess(versionNumbers(Cycles[i].releaseVersion), versionNumbers(v))

\* The filter's predicate stated on day numbers: every specified field must
\* hold, an unspecified one ("All", '') constrains nothing.
WithinDays(day, f, fromDay, toDay) ==
  /\ f.fromDate = <<>> \/ day >= fromDay
  /\ f.toDate = <<>> \/ day <= toDay

\* fromDay and toDay are the day numbers of the dates of f.
SatisfiesOn(item, f, fromDay, toDay) ==
  /\ f.connector = All \/ (item.connector # NullStr /\ item.connector = f.connector)
  /\ f.type = "All" \/ item.type = f.type
  /\ WithinDays(DayOf(item.originalDate), f, fromDay, toDay)

KeepsExactlyOn(kept, flat, f, fromDay, toDay) ==
  /\ kept = SelectSeq(flat, LAMBDA it : SatisfiesOn(it, f, fromDay, toDay))
  /\ ~isAnyFiltered(f) => kept = flat

\* kept is the items of flat that satisfy f, in order; all of flat when f
\* specifies nothing.
KeepsExactly(kept, flat, f) ==
  KeepsExactlyOn(kept, flat, f, DayOf(f.fromDate), DayOf(f.toDate))

\* Each cycle of G holds the items of the same cycle of Full that satisfy f.
CyclesKeepExactlyOn(G, Full, f, fromDay, toDay) ==
  \A i \in 1..Len(G) : KeepsExactlyOn(G[i].items, Full[i].items, f, fromDay, toDay)

CyclesKeepExactly(G, Full, f) ==
  CyclesKeepExactlyOn(G, Full, f, DayOf(f.fromDate), DayOf(f.toDate))

\* With a filter set the cycles shown are those of G that hold an item.
ShowsNonEmpty(G, shown, loaded, f) ==
  (loaded # <<>> /\ isAnyFiltered(f)) => shown = SelectSeq(G, LAMBDA g : g.items # <<>>)

FilterKeepsExactly(G, Full, flat, shown, loaded, f) ==
  /\ KeepsExactly(filteredItems(flat, f), flat, f)
  /\ CyclesKeepExactly(G, Full, f)
  /\ ShowsNonEmpty(G, shown, loaded, f)

\* C6: the filter returns exactly the items satisfying every specified
\* predicate (connector, type, inclusive date range), in their original
\* order; with no filter it returns the list unchanged.
C6_FilterIsConjunction ==
  FilterKeepsExactly(Cycles, FullCycles, FlatItems, groupedWeeks, LoadedWeeks,
                     CurrentFilters)

\* All four fields are set and an item dated on the fromDate itself is shown
\* while other items are left out.
C6_Witness ==
  /\ connectorFilter = Adyen /\ typeFilter = "Feature"
  /\ fromDate # <<>> /\ toDate # <<>>
  /\ \E i \in 1..Len(groupedWeeks) : \E j \in 1..Len(groupedWeeks[i].items) :
       groupedWeeks[i].items[j].originalDate = fromDate
  /\ Len(filteredItems(FlatItems, CurrentFilters)) < Len(FlatItems)

\* The grouper run on the already-filtered flat list.
GroupedAfterFilter ==
  groupsOf(groupItems(filteredItems(FlatItems, CurrentFilters),
                      [groups |-> EmptyRecord, versions |-> EmptyRecord]), NoFilter)

\* C7: with a filter active the cycles shown (keys, items, releaseVersion)
\* are those the grouper yields from the already-filtered flat list.
C7_ShownEqualsGroupingOfFiltered ==
  (LoadedWeeks # <<>> /\ isAnyFiltered(CurrentFilters)) =>
    groupedWeeks = GroupedAfterFilter

(***************************************************************************)
(* Properties of title cleaning and of the parser                          *)
(***************************************************************************)
\* The trim class as documented: - : , ; . and whitespace.
DocumentedTrimClass == {"-", ":", ",", ";", "."} \cup WhiteSpace

\* s holds [ ... ] with something other than ] between the brackets.
HasBracketedToken(s) ==
  \E i \in 1..Len(s) : \E j \in (i + 2)..Len(s) :
    s[i] = "[" /\ s[j] = "]" /\ \A k \in (i + 1)..(j - 1) : s[k] # "]"

\* C8: a non-empty title returned by cleanTitle holds no **, no backtick, no
\* square-bracketed token, and does not end in a character of the
\* documented trim class.
C8_TitleHasNoMarkup ==
  (cleanPc = "returned" /\ stages[9] # <<>>) =>
    /\ ~includes(stages[9], <<"*", "*">>)
    /\ ~includes(stages[9], <<"U+0060">>)
    /\ ~HasBracketedToken(stages[9])
    /\ stages[9][Len(stages[9])] \notin DocumentedTrimClass

TotalItems(ws) == Len(concatAll([i \in 1..Len(ws) |-> ws[i].items]))

IsHeaderLine(line) == versionMatch(trim(line)) # NullStr

IsDashLine(line) == IsAt(trim(line), 1, <<"-">>)

\* The dash lines among the first n that follow a header and whose content
\* and cleaned title are both non-empty.
EmittingLines(n) ==
  {k \in 1..n :
     /\ IsDashLine(lines[k])
     /\ contentOf(trim(lines[k])) # <<>>
     /\ cleanTitle(contentOf(trim(lines[k]))) # <<>>
     /\ \E j \in 1..(k - 1) : IsHeaderLine(lines[j])}

\* C9: no item has an empty title; a bullet whose content or cleaned title
\* is empty adds no item, and the lines after it are parsed all the same:
\* the items so far are one per emitting line read, and GET returns after
\* the last line.
C9_EmptyBulletsDiscarded ==
  /\ \A w \in 1..Len(weeks) : \A i \in 1..Len(weeks[w].items) :
       weeks[w].items[i].title # <<>>
  /\ parsePc = "loop" => TotalItems(weeks) = Cardinality(EmittingLines(lineNo - 1))
  /\ parsePc = "returned" =>
       /\ response = weeks
       /\ lineNo = Len(lines) + 1
       /\ TotalItems(response) = Cardinality(EmittingLines(Len(lines)))

\* GET has returned for a changelog in which a header is followed by a
\* bullet that cleans to nothing and then by a bullet that became an item.
C9_Witness ==
  /\ parsePc = "returned"
  /\ \E j \in 1..Len(lines) : \E k \in (j + 1)..Len(lines) :
       /\ IsHeaderLine(lines[j])
       /\ IsDashLine(lines[k])
       /\ contentOf(trim(lines[k])) # <<>>
       /\ cleanTitle(contentOf(trim(lines[k]))) = <<>>
       /\ \E l \in (k + 1)..Len(lines) : l \in EmittingLines(Len(lines))
  /\ TotalItems(response) >= 1

\* C10: the last statement of cleanTitle removes the trailing run of
\* characters of the documented trim class and nothing else.
C10_LastStepStripsDocumentedClass ==
  cleanPc = "returned" => stages[9] = stripTrailing(stages[8], DocumentedTrimClass)

(***************************************************************************)
(* Properties of the parsed fields                                         *)
(***************************************************************************)
LetterSet(letters) == {letters[k] : k \in 1..Len(letters)}

\* Each word of ws is empty or starts with a character that is not a
\* lower-case letter and goes on without upper-case letters.
WordsCapitalized(ws) ==
  \A i \in 1..Len(ws) :
    \/ ws[i] = <<>>
    \/ /\ ws[i][1] \notin LetterSet(LowerLetters)
       /\ \A k \in 2..Len(ws[i]) : ws[i][k] \notin LetterSet(UpperLetters)

\* Each word of ws starts with an upper-case letter and goes on without
\* upper-case letters.
WordsStartUpperCase(ws) ==
  \A i \in 1..Len(ws) :
    /\ ws[i] # <<>>
    /\ ws[i][1] \in LetterSet(UpperLetters)
    /\ \A k \in 2..Len(ws[i]) : ws[i][k] \notin LetterSet(UpperLetters)

\* out is what normalizeConnector returned for arg, again the value it
\* returns for arg in lower case and for arg in upper case.
CaseBlind(arg, out) ==
  /\ out = normalizeConnector(toLowerCase(arg))
  /\ out = normalizeConnector(toUpperCase(arg))
  /\ toLowerCase(arg) = <<"a", "d", "y", "e", "n">> => out = <<"A", "d", "y", "e", "n">>

\* C11: normalizeConnector returns the same value for inputs that differ only
\* in letter case (Adyen for ADYEN, adyen, Adyen), returns its own result
\* unchanged when applied to it, and every space-separated word of the
\* result is empty or starts with a character that is not a lower-case
\* letter, followed by no upper-case letter.
C11_NormalizeIdempotentCaseBlind ==
  (normPc = "on" /\ connOut # <<>>) =>
    /\ CaseBlind(connArg, connOut[1])
    /\ Len(connOut) = 2 => connOut[2] = connOut[1]
    /\ WordsCapitalized(split(connOut[1], " "))

\* ADYEN was normalized to Adyen and the second call returned Adyen again.
C11_Witness ==
  /\ normPc = "on" /\ Len(connOut) = 2
  /\ connArg = <<"A", "D", "Y", "E", "N">>
  /\ connOut[2] = <<"A", "d", "y", "e", "n">>

\* C11 as stated: likewise, with every space-separated word of the result
\* starting with an upper-case character.
C11_EveryWordStartsUpperCase ==
  (normPc = "on" /\ connOut # <<>>) =>
    /\ CaseBlind(connArg, connOut[1])
    /\ Len(connOut) = 2 => connOut[2] = connOut[1]
    /\ WordsStartUpperCase(split(connOut[1], " "))

\* The connector pattern's class with any whitespace, and with the space only.
TagClass == LetterSet(UpperLetters) \cup LetterSet(LowerLetters) \cup Digit \cup {"_"} \cup WhiteSpace

DocumentedTagClass == LetterSet(UpperLetters) \cup LetterSet(LowerLetters) \cup Digit \cup {"_", " "}

\* s[i..j] is a bracketed token with a non-empty inner text over class.
IsTag(s, i, j, class) ==
  /\ s[i] = "[" /\ s[j] = "]" /\ j > i + 1
  /\ \A k \in (i + 1)..(j - 1) : s[k] \in class

TagSpans(s, class) ==
  {span \in (1..Len(s)) \X (1..Len(s)) : IsTag(s, span[1], span[2], class)}

\* The inner text of the leftmost token of spans.
InnerOfFirst(s, spans) ==
  SubSeq(s, (CHOOSE a \in spans : \A b \in spans : a[1] <= b[1])[1] + 1,
            (CHOOSE a \in spans : \A b \in spans : a[1] <= b[1])[2] - 1)

\* c is null exactly when s has no token over class or the first one is
\* blank, and otherwise the normalized trimmed inner text of the first one.
ConnectorIsFirstTag(s, c, class) ==
  /\ (c = NullStr) <=>
       (TagSpans(s, class) = {} \/ trim(InnerOfFirst(s, TagSpans(s, class))) = <<>>)
  /\ c # NullStr =>
       /\ TagSpans(s, class) # {}
       /\ c = normalizeConnector(trim(InnerOfFirst(s, TagSpans(s, class))))

\* c is null exactly when s has no token over class, and otherwise the
\* normalized inner text of the first one.
ConnectorNullIffNoTag(s, c, class) ==
  /\ (c = NullStr) <=> (TagSpans(s, class) = {})
  /\ c # NullStr =>
       /\ TagSpans(s, class) # {}
       /\ c = normalizeConnector(trim(InnerOfFirst(s, TagSpans(s, class))))

\* C12: an emitted item's connector is null exactly when the content holds
\* no bracketed token whose inner text is one or more letters, digits,
\* underscores or whitespace characters, or when the first such token is
\* blank inside; otherwise it is the normalized trimmed inner text of the
\* first such token. A PR link [#n](url) is no such token, before or after
\* a connector tag.
C12_ConnectorIsFirstTag ==
  itemPc = "pushed" => ConnectorIsFirstTag(bullet, emitted.connector, TagClass)

\* An item whose content starts with a PR link and goes on with [ADYEN]:
\* the connector is Adyen.
C12_Witness ==
  /\ itemPc = "pushed"
  /\ IsAt(bullet, 1, <<"[", "#">>)
  /\ emitted.prNumber # NullStr
  /\ emitted.connector = Adyen

\* C12 as stated: the connector is null exactly when the content holds no
\* bracketed token whose inner text matches [A-Za-z0-9_ ]+.
C12_ConnectorNullIffNoTag ==
  itemPc = "pushed" => ConnectorNullIffNoTag(bullet, emitted.connector, DocumentedTagClass)

\* s[i..k] is [#digits](https://github.com/...) with the digits ending
\* before the bracket at j and the URL before the first parenthesis at k.
IsPrLink(s, i, j, k) ==
  /\ IsAt(s, i, <<"[", "#">>) /\ j > i + 2
  /\ s[j] = "]" /\ s[k] = ")"
  /\ \A d \in (i + 2)..(j - 1) : s[d] \in Digit
  /\ IsAt(s, j + 1, <<"(">> \o GithubUrl \o <<"/">>)
  /\ k > j + 3 + Len(GithubUrl)
  /\ \A c \in (j + 2)..(k - 1) : s[c] # ")"

\* The digits and the URL of the PR link of s that starts at i.
PrFieldsOfLink(s, i, n, u) ==
  \E j \in i..Len(s) :
    /\ s[j] = "]"
    /\ \E k \in j..Len(s) :
         /\ s[k] = ")"
         /\ IsPrLink(s, i, j, k)
         /\ n = SubSeq(s, i + 2, j - 1)
         /\ u = SubSeq(s, j + 2, k - 1)

HasPrLinkAt(s, i) ==
  /\ IsAt(s, i, <<"[", "#">>)
  /\ \E j \in i..Len(s) : s[j] = "]" /\ \E k \in j..Len(s) : s[k] = ")" /\ IsPrLink(s, i, j, k)

PrLinkStarts(s) == {i \in 1..Len(s) : HasPrLinkAt(s, i)}

\* n and u are both null when s has no PR link (starts is empty), and
\* otherwise the digits and the URL of the first one.
PrFieldsOfFirstLink(s, starts, n, u) ==
  /\ (n = NullStr) <=> (u = NullStr)
  /\ (n = NullStr) <=> (starts = {})
  /\ n # NullStr =>
       \E i \in starts : (\A b \in starts : i <= b) /\ PrFieldsOfLink(s, i, n, u)

\* C13: an emitted item's prNumber and prUrl are both present or both
\* absent; they are absent exactly when the content holds no link of shape
\* [#digits](https://github.com/...), and otherwise they are the digit
\* string and the URL of the first such link.
C13_PrFieldsFromFirstLink ==
  itemPc = "pushed" =>
    PrFieldsOfFirstLink(bullet, PrLinkStarts(bullet), emitted.prNumber, emitted.prUrl)

\* An item whose content holds two different PR links, #7 first: the
\* fields are those of #7.
C13_Witness ==
  /\ itemPc = "pushed"
  /\ Cardinality(PrLinkStarts(bullet)) = 2
  /\ includes(bullet, <<"[", "#", "1", "2", "]">>)
  /\ emitted.prNumber = <<"7">>

\* c is the lower-case letter l in either case.
IsLetterOf(c, l) == c = l \/ \E n \in 1..26 : UpperLetters[n] = c /\ LowerLetters[n] = l

\* s holds word, letter case aside.
HoldsWord(s, word) ==
  \E i \in 1..Len(s) :
    /\ i + Len(word) - 1 <= Len(s)
    /\ \A k \in 1..Len(word) : IsLetterOf(s[i + k - 1], word[k])

HoldsFixWord(s) ==
  \/ HoldsWord(s, <<"f", "i", "x">>)
  \/ HoldsWord(s, <<"b", "u", "g">>)
  \/ HoldsWord(s, <<"r", "e", "s", "o", "l", "v", "e", "s">>)

\* C14: an emitted item's type is Bug Fix exactly when the raw content,
\* tags and link text included and letter case aside, holds fix, bug or
\* resolves, and Feature otherwise.
C14_TypeFromRawContent ==
  itemPc = "pushed" =>
    emitted.type = (IF HoldsFixWord(bullet) THEN "Bug Fix" ELSE "Feature")

\* A Bug Fix item whose cleaned title holds none of the words: the word
\* stood in a tag or in a link of the raw content.
C14_Witness ==
  /\ itemPc = "pushed"
  /\ emitted.type = "Bug Fix"
  /\ ~HoldsFixWord(emitted.title)

(***************************************************************************)
(* Properties of the sections                                              *)
(***************************************************************************)
AllDigits(t, from, to) == \A k \in from..to : t[k] \in Digit

\* From a on, t holds four digits, a dot, m digits, a dot, d digits, a dot
\* and n digits.
VersionAt(t, a, m, d, n) ==
  /\ a + 6 + m + d + n <= Len(t)
  /\ AllDigits(t, a, a + 3) /\ t[a + 4] = "."
  /\ AllDigits(t, a + 5, a + 4 + m) /\ t[a + 5 + m] = "."
  /\ AllDigits(t, a + 6 + m, a + 5 + m + d) /\ t[a + 6 + m + d] = "."
  /\ AllDigits(t, a + 7 + m + d, a + 6 + m + d + n)

\* Only whitespace and then at most one opening bracket stand between the
\* ## and a.
AfterHashes(t, a) ==
  \A k \in 3..(a - 1) : t[k] \in WhiteSpace \/ (k = a - 1 /\ t[k] = "[")

\* The spans of t that hold a version id of the four-component shape (one
\* or two digits in each of the last three) right after ##, optional
\* whitespace and an optional opening bracket.
VersionSpans(t) ==
  IF IsAt(t, 1, <<"#", "#">>)
  THEN {<<q[1], q[1] + 6 + q[2] + q[3] + q[4]>> :
          q \in {r \in (3..Len(t)) \X {1, 2} \X {1, 2} \X {1, 2} :
                   AfterHashes(t, r[1]) /\ VersionAt(t, r[1], r[2], r[3], r[4])}}
  ELSE {}

IsValidHeader(line) == VersionSpans(trim(line)) # {}

LongestOf(t, spans) ==
  SubSeq(t, (CHOOSE sp \in spans : \A o \in spans : o[2] <= sp[2])[1],
            (CHOOSE sp \in spans : \A o \in spans : o[2] <= sp[2])[2])

\* The version id of a valid header line.
HeaderVersion(line) == LongestOf(trim(line), VersionSpans(trim(line)))

PadTwo(digits) == IF Len(digits) = 1 THEN <<"0">> \o digits ELSE digits

DateOfParts(p) == p[1] \o <<"-">> \o PadTwo(p[2]) \o <<"-">> \o PadTwo(p[3])

\* yyyy-MM-dd from the first three components of a version id.
HeaderDate(line) == DateOfParts(split(HeaderVersion(line), "."))

\* The valid header lines among the first n lines.
SectionHeaders(n) == {k \in 1..n : IsValidHeader(lines[k])}

\* The emitting lines among the first n whose nearest preceding valid
\* header is line h.
OwnedBy(h, n) ==
  {k \in EmittingLines(n) :
     k > h /\ \A j \in (h + 1)..(k - 1) : ~IsValidHeader(lines[j])}

RankIn(S, k) == Cardinality({j \in S : j <= k})

ItemOfLine(item, k, h) ==
  /\ item.version = HeaderVersion(lines[h])
  /\ item.originalDate = HeaderDate(lines[h])
  /\ item.title = cleanTitle(contentOf(trim(lines[k])))

SectionOfHeader(w, h, owned) ==
  /\ w.id = HeaderDate(lines[h])
  /\ w.date = HeaderDate(lines[h])
  /\ Len(w.items) = Cardinality(owned)
  /\ \A k \in owned : ItemOfLine(w.items[RankIn(owned, k)], k, h)

\* ws holds one section per valid header among the first n lines, in
\* document order, each with the items of the lines it owns, in document
\* order.
SectionsInOrder(ws, headers, n) ==
  /\ Len(ws) = Cardinality(headers)
  /\ \A h \in headers : SectionOfHeader(ws[RankIn(headers, h)], h, OwnedBy(h, n))

\* C15: the sections are those of the valid header lines, in document
\* order; each section's items are those of the emitting lines whose
\* nearest preceding valid header is the section's, in document order; an
\* item's version is that header's version id and its originalDate the
\* yyyy-MM-dd built from the id's first three components, month and day
\* padded to two digits.
C15_ItemsBelongToNearestHeader ==
  /\ parsePc = "loop" => SectionsInOrder(weeks, SectionHeaders(lineNo - 1), lineNo - 1)
  /\ parsePc = "returned" =>
       SectionsInOrder(response, SectionHeaders(Len(lines)), Len(lines))

\* GET has returned two sections, and the one item of the second is of
\* version 2026.1.7.0 and dated 2026-01-07.
C15_Witness ==
  /\ parsePc = "returned"
  /\ Len(response) = 2
  /\ response[1].items = <<>>
  /\ Len(response[2].items) = 1
  /\ response[2].items[1].version = <<"2", "0", "2", "6", ".", "1", ".", "7", ".", "0">>
  /\ response[2].items[1].originalDate = <<"2", "0", "2", "6", "-", "0", "1", "-", "0", "7">>

\* The line about to be read is a dash line and no valid header precedes it.
AtOrphanBullet ==
  /\ parsePc = "loop" /\ lineNo <= Len(lines)
  /\ IsDashLine(lines[lineNo])
  /\ SectionHeaders(lineNo - 1) = {}

\* C16: reading a dash line that no valid header precedes adds no item and
\* ends in no error: there is still no section, no open week and no
\* current version, and the loop goes on with the next line.
C16_OrphanBulletDropped ==
  [][AtOrphanBullet =>
       /\ weeks = <<>> /\ weeks' = <<>>
       /\ currentWeek' = 0 /\ currentVersion' = NullStr
       /\ lineNo' = lineNo + 1
       /\ parsePc' = "loop" /\ response' = NullStr]_vars

\* GET has returned for three lines: a bullet that would make an item, a
\* valid header, and a bullet that became the one item.
C16_Witness ==
  /\ parsePc = "returned"
  /\ Len(lines) = 3
  /\ IsDashLine(lines[1]) /\ emitsItem(contentOf(trim(lines[1])))
  /\ IsValidHeader(lines[2])
  /\ 3 \in EmittingLines(3)
  /\ TotalItems(response) = 1

\* The line about to be read starts with ## and is no valid header.
AtMalformedHeader ==
  /\ parsePc = "loop" /\ lineNo <= Len(lines)
  /\ IsAt(trim(lines[lineNo]), 1, <<"#", "#">>)
  /\ ~IsValidHeader(lines[lineNo])

\* C17: reading a ## line on which no version of the four-component shape
\* starts right after ##, whitespace and an optional bracket (one
\* component missing, say) starts no section, adds no item and ends in no error: the
\* sections, the open week and the current version stay as they are and the
\* loop goes on with the next line.
C17_MalformedHeaderIgnored ==
  [][AtMalformedHeader =>
       /\ weeks' = weeks
       /\ currentWeek' = currentWeek /\ currentVersion' = currentVersion
       /\ lineNo' = lineNo + 1
       /\ parsePc' = "loop" /\ response' = NullStr]_vars

\* GET has returned for a valid header, a ## line with one component
\* missing, and a bullet: one section, and the bullet's item carries the
\* valid header's version.
C17_Witness ==
  /\ parsePc = "returned"
  /\ Len(lines) = 3
  /\ IsValidHeader(lines[1])
  /\ lines[2] = <<"#", "#", " ", "[", "2", "0", "2", "6", ".", "1", ".", "7", "]">>
  /\ Len(response) = 1
  /\ Len(response[1].items) = 1
  /\ response[1].items[1].version = HeaderVersion(lines[1])

(***************************************************************************)
(* Properties of the invocations                                           *)
(***************************************************************************)
\* C18: a second invocation of GET that fetches the same text answers what
\* the first one answered, sections and items in the same order with the
\* same field values; it splits the same text and starts its loop with no
\* section, no open week and no version, so nothing the first invocation
\* left is read.
C18_SecondPassAnswersTheSame ==
  /\ (invocation = 2 /\ parsePc = "returned") => response = firstResponse
  /\ (invocation = 2 /\ parsePc = "loop") => lines = split(changelog, "\n")
  /\ (invocation = 2 /\ parsePc = "loop" /\ lineNo = 1) =>
       (weeks = <<>> /\ currentWeek = 0 /\ currentVersion = NullStr)

\* The second invocation has answered two sections, the second with an
\* item.
C18_Witness ==
  /\ invocation = 2 /\ parsePc = "returned"
  /\ Len(firstResponse) = 2
  /\ Len(response) = 2
  /\ response[2].items # <<>>

\* C19: an invocation whose changelog request failed has made exactly one
\* fetch and has answered the error body with status 500, which holds no
\* section and no item; it takes no further step.
C19_FailedFetchAnswersError ==
  /\ parsePc = "failed" =>
       /\ fetches = 1
       /\ response = FailedResponse
       /\ response.status = 500
       /\ DOMAIN response = {"error", "status"}
  /\ parsePc \in {"loop", "returned"} => fetches = 1

\* The request of the second invocation has failed after the first
\* invocation answered its sections.
C19_Witness ==
  /\ parsePc = "failed"
  /\ invocation = 2
  /\ firstResponse # <<>>

(***************************************************************************)
(* Properties of the page on a failed fetch                                *)
(***************************************************************************)
\* C20: the page never crashes; once fetchData is over with nothing
\* loaded, loading is cleared and no cycle is displayed.
C20_FailedFetchShowsNoData ==
  /\ fetchPc # "crashed"
  /\ (fetchPc = "done" /\ allParsedWeeks = <<>>) => (~loading /\ groupedWeeks = <<>>)

(***************************************************************************)
(* Properties of the cycle's display fields                                *)
(***************************************************************************)
\* In G a cycle is flagged exactly when its key is the day today or a
\* later day, and no flagged cycle follows an unflagged one.
CurrentFlagsRight(G, today) ==
  /\ \A i \in 1..Len(G) : G[i].isCurrentWeek <=> (DayOf(G[i].id) >= today)
  /\ \A i \in 1..Len(G) : \A j \in (i + 1)..Len(G) :
       G[j].isCurrentWeek => G[i].isCurrentWeek

\* C21: a cycle on display is flagged current exactly when its
\* cycle end date is today or later, and every cycle flagged current
\* precedes every cycle that is not.
C21_CurrentIffTodayOrLater == CurrentFlagsRight(groupedWeeks, Now.day)

\* The display holds a cycle that ends today, flagged, after a cycle that
\* ends later and before one that has ended.
C21_Witness ==
  \E i \in 1..Len(groupedWeeks) :
    /\ groupedWeeks[i].id = Today
    /\ groupedWeeks[i].isCurrentWeek
    /\ i > 1 /\ groupedWeeks[i - 1].isCurrentWeek
    /\ i < Len(groupedWeeks) /\ ~groupedWeeks[i + 1].isCurrentWeek

\* The headline of each cycle of G names the seven days that end at the
\* cycle's key, and each item of the cycle is dated in those days.
HeadlinesSpanCycle(G) ==
  \A i \in 1..Len(G) :
    /\ G[i].headline = headlineOf(addDays(parseISO(G[i].id), -6), parseISO(G[i].id))
    /\ \A j \in 1..Len(G[i].items) :
         DayOf(G[i].id) - DayOf(G[i].items[j].originalDate) \in 0..6

\* C22: the headline of every displayed cycle describes the span from six
\* days before its cycle end date through the cycle end date, the dates
\* whose cycle key is that cycle.
C22_HeadlineSpansCycle == HeadlinesSpanCycle(groupedWeeks)

(***************************************************************************)
(* Properties of Load Previous Weeks                                       *)
(***************************************************************************)
\* C30: with no filter active the display is the visibleWeeksCount most
\* recent cycles, and Load Previous Weeks is offered exactly when a cycle
\* is still hidden.
C30_LoadOfferedIffCycleHidden ==
  ~isAnyFiltered(CurrentFilters) =>
    /\ LoadedWeeks # <<>> => groupedWeeks = slice0(FullCycles, visibleWeeksCount)
    /\ hasMore(LoadedWeeks, visibleWeeksCount, CurrentFilters)
         <=> (Len(groupedWeeks) < Len(FullCycles))

(***************************************************************************)
(* Properties of the view mode                                             *)
(***************************************************************************)
\* C28: while a connector or type filter is active no cycle is rendered as
\* an executive summary, before and after every step, and no step taken in
\* that state, the EXECUTIVE button included, changes the view mode.
C28_NoSummaryWhileContentFiltered ==
  [][/\ isContentFiltered(CurrentFilters) =>
          /\ ~rendersSummary(viewMode, CurrentFilters)
          /\ viewMode = "list"
          /\ viewMode' = viewMode
     /\ isContentFiltered(CurrentFilters)' =>
          /\ ~rendersSummary(viewMode, CurrentFilters)'
          /\ viewMode' = "list"]_vars

\* A type filter is set on loaded cycles and the view is the list.
C28_Witness ==
  /\ typeFilter = "Bug Fix"
  /\ groupedWeeks # <<>>
  /\ viewMode = "list"
  /\ ~rendersSummary(viewMode, CurrentFilters)

(***************************************************************************)
(* Properties of the LLM client                                            *)
(***************************************************************************)
\* The errors the fallback is made for, as a set of fields.
RetriableStatuses(error) == error.status = 429 \/ error.status >= 500

RetriableCodes == {"model_not_found", "invalid_model_error", "service_unavailable"}

RetriableTypes == {"rate_limit_error", "server_error"}

FellBack == Len(requests) >= 2

PrimaryFailedRetriably ==
  /\ primaryError # NoError
  /\ \/ RetriableStatuses(primaryError)
     \/ primaryError.code \in RetriableCodes
     \/ primaryError.type \in RetriableTypes

LlmSettled == llmPc \in {"returned", "threw"}

\* C23: a call that has settled or awaits its fallback has issued a
\* fallback request exactly when the primary model differs from the
\* fallback model and the primary request failed with a retriable error;
\* the fallback request is the second and last request, it follows the
\* primary's failure and differs from the primary request in the model
\* only; a call whose primary model is the fallback model has issued
\* exactly one request when it settles.
C23_FallbackIffRetriable ==
  /\ Len(requests) <= 2
  /\ llmPc \in {"fallback", "returned", "threw"} =>
       (FellBack <=> (llmModel # fallbackModelOf(llmOption) /\ PrimaryFailedRetriably))
  /\ llmPc \in {"only", "primary"} => ~FellBack
  /\ llmPc # "called" => /\ Len(requests) >= 1
                         /\ requests[1] = Request(llmModel, llmParams)
  /\ FellBack => /\ primaryError # NoError
                 /\ requests[2].model = fallbackModelOf(llmOption)
                 /\ requests[2].params = requests[1].params
  /\ (LlmSettled /\ llmModel = fallbackModelOf(llmOption)) => Len(requests) = 1

\* The primary failed with status 429 and the fallback request was made.
C23_Witness ==
  /\ llmPc = "fallback"
  /\ primaryError.status = 429
  /\ requests = <<Request("gpt-4o", llmParams), Request("glm-latest", llmParams)>>

\* C24: a call that threw made both the primary and the fallback request and
\* both failed; a call an attempt of which succeeded returned its completion.
C24_ThrowsOnlyAfterBothFailed ==
  /\ llmPc = "threw" => (Len(requests) = 2 /\ primaryError # NoError)
  /\ llmPc = "returned" => llmOutcome.kind = "completion"

(***************************************************************************)
(* Properties of the enhancer                                              *)
(***************************************************************************)
\* out is item with its title for the enhanced title and the description.
IsUnenhanced(out, item) ==
  /\ out.title = item.title /\ out.type = item.type
  /\ out.connector = item.connector /\ out.prNumber = item.prNumber
  /\ out.prUrl = item.prUrl /\ out.originalDate = item.originalDate
  /\ out.enhancedTitle = JStr(item.title)
  /\ out.description = JStr(item.title)

AllUnenhanced(outs, list) ==
  /\ Len(outs) = Len(list)
  /\ \A k \in 1..Len(list) : IsUnenhanced(outs[k], list[k])

IsPrefixOf(a, b) == Len(a) <= Len(b) /\ SubSeq(b, 1, Len(a)) = a

\* The JSON of a response carries an array of items.
CarriesItemArray(val) ==
  \/ val.kind = "array"
  \/ /\ val.kind = "object"
     /\ \E key \in {"enhanced_items", "items"} :
          hasKey(val, key) /\ memberOf(val, key).kind = "array"

NoItemArray(toks) ==
  \/ ~Parses(toks)
  \/ ~CarriesItemArray(JSONparse(toks).out)

\* The step of the loop body that handles a completion.
HandlesCompletion == enhPc = "awaiting" /\ enhPc' = "loop"

\* C25: a call never throws; a call that returned after the request of a
\* batch was rejected returned every input item, in order, with its title
\* for enhancedTitle and description; a batch whose response, once its JSON
\* is extracted, does not parse or carries no item array adds its items in
\* that unenhanced form, and what earlier batches added stays.
C25_NeverThrowsAndFallsBack ==
  [][/\ enhPc' # "threw"
     /\ (enhPc' = "returned" /\ failedBatch' # 0) => AllUnenhanced(enhResult', enhItems)
     /\ (enhPc' = "returned" /\ failedBatch' = 0) => enhResult' = enhancedItems'
     /\ IsPrefixOf(enhancedItems, enhancedItems')
     /\ (HandlesCompletion /\ NoItemArray(extractJson(responseTextOf(llmOutcome.content))))
          => /\ IsPrefixOf(enhancedItems, enhancedItems')
             /\ AllUnenhanced(SubSeq(enhancedItems', Len(enhancedItems) + 1,
                                     Len(enhancedItems')),
                              batches[batchNo])]_vars

\* The request of the second batch was rejected after the first batch was
\* enhanced, and every item came back unenhanced.
C25_Witness ==
  /\ enhPc = "returned"
  /\ failedBatch = 2
  /\ Len(enhancedItems) > 0
  /\ enhancedItems[1].enhancedTitle # JStr(enhItems[1].title)
  /\ AllUnenhanced(enhResult, enhItems)

RequestInFlight == llmPc \in {"only", "primary", "fallback"}

\* C26: the batches are consecutive slices of at most 5 items that together
\* are the input; a request is in flight only while the loop awaits the
\* batch it is at, every earlier batch having been handled, so that at most
\* one call is unsettled.
C26_BatchesOfFiveOneAtATime ==
  /\ enhPc \in {"loop", "awaiting"} =>
       /\ concatAll(batches) = enhItems
       /\ \A b \in 1..Len(batches) : Len(batches[b]) \in 1..5
       /\ \A b \in 1..(Len(batches) - 1) : Len(batches[b]) = 5
  /\ inFlight <= 1
  /\ inFlight = 1 <=> enhPc = "awaiting"
  /\ RequestInFlight => enhPc = "awaiting"
  /\ enhPc = "awaiting" => Len(enhancedItems) >= batchNo - 1

\* The request of the second batch is in flight after the first was handled.
C26_Witness ==
  /\ enhPc = "awaiting"
  /\ batchNo = 2
  /\ llmPc = "primary"
  /\ Len(batches[1]) = 5
  /\ Len(batches[2]) = 1

\* C27: a call returns one output item per input item, in input order, each
\* with the original fields of the input at its position.
C27_OneOutputPerInput ==
  enhPc = "returned" =>
    /\ Len(enhResult) = Len(enhItems)
    /\ \A k \in 1..Len(enhItems) :
         k <= Len(enhResult) =>
           /\ enhResult[k].title = enhItems[k].title
           /\ enhResult[k].type = enhItems[k].type
           /\ enhResult[k].connector = enhItems[k].connector
           /\ enhResult[k].prNumber = enhItems[k].prNumber
           /\ enhResult[k].prUrl = enhItems[k].prUrl
           /\ enhResult[k].originalDate = enhItems[k].originalDate

(***************************************************************************)
(* Properties of summary generation                                        *)
(***************************************************************************)
\* A chunk request failed: a network error or the route's error response.
ChunkFailed(result) ==
  result.st = "rejected" \/ (result.st = "resolved" /\ result.status >= 400)

\* C29: a call that is over has removed the week from generatingIds; if one
\* of its chunk requests failed the week is in failedIds and the call has
\* stored no summary, in summaries, in the browser cache or through
\* /api/save-summary.
C29_FailedChunkMarksWeekFailed ==
  sumPc = "done" =>
    /\ sumWeek.id \notin generatingIds
    /\ (\E c \in 1..Len(chunkResults) : ChunkFailed(chunkResults[c])) =>
         /\ sumWeek.id \in failedIds
         /\ summaries \in StaticCaches
         /\ localStorage \in StaticCaches
         /\ saved = <<>>

====
